---- MODULE Spec2Model ----
(***************************************************************************)
(* BlinkPDF: the tool pipeline of src/app.py (process_tool, _save_uploads, *)
(* _map_options) and the dispatcher of src/utils/pdf_processor.py          *)
(* (PDFProcessor.process and the routines it routes to); the server's disk *)
(* with tool requests that run side by side; and the routes of src/app.py  *)
(* that serve or open files by name or call the AI service.                *)
(*                                                                         *)
(* Python strings that the code inspects (slugs, file names, form values)  *)
(* are sequences of one-character strings, so that strip(), lower(),       *)
(* int(), float() and json.loads() are computed, not assumed. Dictionary   *)
(* keys and message templates, which the code only compares or prints,     *)
(* are TLA+ strings.                                                       *)
(***************************************************************************)
EXTENDS Integers, Sequences, FiniteSets, TLC

(***************************************************************************)
(* Python values and string primitives                                     *)
(***************************************************************************)

\* Python values: every value is a record of the same shape, t is its type.
None == [t |-> "none", s |-> <<>>, n |-> 0]

PyStr(cs) == [t |-> "str", s |-> cs, n |-> 0]

PyInt(i) == [t |-> "int", s |-> <<>>, n |-> i]

\* a float, held in hundredths (0.15 is n = 15)
PyFloat(h) == [t |-> "float", s |-> <<>>, n |-> h]

True == [t |-> "bool", s |-> <<>>, n |-> 1]

\* bool(v): the truth value Python gives v in `a or b` and `if not a`
Truthy(v) ==
  CASE v.t = "none" -> FALSE
    [] v.t \in {"str", "list", "dict"} -> v.s # <<>>
    [] OTHER -> v.n # 0

\* a or b
PyOr(a, b) == IF Truthy(a) THEN a ELSE b

\* d.get(k) and d.get(k, default) on a dict held as a function
Get(d, k) == IF k \in DOMAIN d THEN d[k] ELSE None

GetDefault(d, k, default) == IF k \in DOMAIN d THEN d[k] ELSE default

\* d with d[k] = v
Put(d, k, v) == [x \in DOMAIN d \cup {k} |-> IF x = k THEN v ELSE d[x]]

EmptyDict == [x \in {} |-> None]

Whitespace == {" ", "\t", "\n", "\r"}

Digits == <<"0", "1", "2", "3", "4", "5", "6", "7", "8", "9">>

UpperCase ==
  <<"A", "B", "C", "D", "E", "F", "G", "H", "I", "J", "K", "L", "M",
    "N", "O", "P", "Q", "R", "S", "T", "U", "V", "W", "X", "Y", "Z">>

LowerCase ==
  <<"a", "b", "c", "d", "e", "f", "g", "h", "i", "j", "k", "l", "m",
    "n", "o", "p", "q", "r", "s", "t", "u", "v", "w", "x", "y", "z">>

IsDigit(c) == \E i \in DOMAIN Digits : Digits[i] = c

DigitVal(c) == (CHOOSE i \in DOMAIN Digits : Digits[i] = c) - 1

LowerChar(c) ==
  IF \E i \in DOMAIN UpperCase : UpperCase[i] = c
    THEN LowerCase[CHOOSE i \in DOMAIN UpperCase : UpperCase[i] = c]
    ELSE c

\* str.lower()
Lower(cs) == [i \in DOMAIN cs |-> LowerChar(cs[i])]

RECURSIVE LStrip(_)
LStrip(cs) ==
  IF cs # <<>> /\ Head(cs) \in Whitespace THEN LStrip(Tail(cs)) ELSE cs

RECURSIVE RStrip(_)
RStrip(cs) ==
  IF cs # <<>> /\ cs[Len(cs)] \in Whitespace
    THEN RStrip(SubSeq(cs, 1, Len(cs) - 1))
    ELSE cs

\* str.strip()
Strip(cs) == RStrip(LStrip(cs))

AllDigits(cs) == cs # <<>> /\ \A i \in DOMAIN cs : IsDigit(cs[i])

RECURSIVE DecimalValue(_)
DecimalValue(cs) ==
  IF cs = <<>> THEN 0
  ELSE 10 * DecimalValue(SubSeq(cs, 1, Len(cs) - 1)) + DigitVal(cs[Len(cs)])

\* int(x): an int is returned as it is; a str is stripped, may carry one sign
\* and must then be decimal digits, else ValueError (ok = FALSE).
ParseInt(v) ==
  IF v.t = "int" THEN [ok |-> TRUE, n |-> v.n]
  ELSE
    LET body == Strip(v.s)
        signed == body # <<>> /\ Head(body) \in {"+", "-"}
        digits == IF signed THEN Tail(body) ELSE body
    IN IF AllDigits(digits)
         THEN [ok |-> TRUE,
               n |-> IF signed /\ Head(body) = "-"
                       THEN 0 - DecimalValue(digits)
                       ELSE DecimalValue(digits)]
         ELSE [ok |-> FALSE, n |-> 0]

\* `try: x = int(..) except ValueError: x = default`
OrDefault(parsed, default) == IF parsed.ok THEN parsed.n ELSE default

\* the index of the first c in cs, 0 when there is none (str.find + 1)
IndexOf(cs, c) ==
  IF \E i \in DOMAIN cs : cs[i] = c
    THEN CHOOSE i \in DOMAIN cs : cs[i] = c /\ \A j \in 1..(i - 1) : cs[j] # c
    ELSE 0

\* the first two fraction digits of a decimal fraction, as hundredths
Hundredths(frac) ==
  (IF Len(frac) >= 1 THEN 10 * DigitVal(frac[1]) ELSE 0)
    + (IF Len(frac) >= 2 THEN DigitVal(frac[2]) ELSE 0)

\* float of a stripped, lower-cased text, in hundredths
FloatOfText(body) ==
  LET signed == body # <<>> /\ Head(body) \in {"+", "-"}
      num == IF signed THEN Tail(body) ELSE body
      dot == IndexOf(num, ".")
      whole == IF dot = 0 THEN num ELSE SubSeq(num, 1, dot - 1)
      frac == IF dot = 0 THEN <<>> ELSE SubSeq(num, dot + 1, Len(num))
  IN IF num \in {<<"i", "n", "f">>, <<"n", "a", "n">>,
                 <<"i", "n", "f", "i", "n", "i", "t", "y">>}
       THEN [ok |-> TRUE, n |-> 0]
     ELSE IF (whole = <<>> /\ frac = <<>>) \/ ~(\A i \in DOMAIN num : IsDigit(num[i]) \/ i = dot)
       THEN [ok |-> FALSE, n |-> 0]
     ELSE [ok |-> TRUE,
           n |-> (IF signed /\ Head(body) = "-" THEN 0 - 1 ELSE 1)
                   * (100 * DecimalValue(whole) + Hundredths(frac))]

\* float(x): a float or int is converted; a str is stripped, may carry one
\* sign and must then be inf, infinity or nan, or digits with at most one
\* point and a digit on one side of it, else ValueError (ok = FALSE).
\* Exponents are outside the values the model draws.
ParseFloat(v) ==
  IF v.t = "float" THEN [ok |-> TRUE, n |-> v.n]
  ELSE IF v.t = "int" THEN [ok |-> TRUE, n |-> 100 * v.n]
  ELSE FloatOfText(Lower(Strip(v.s)))

(***************************************************************************)
(* json.loads: objects, arrays, strings without escapes, decimal numbers   *)
(* without exponent, true, false, null. A number is held as an int, or as  *)
(* a float in hundredths when it has a fraction.                           *)
(***************************************************************************)

PyDict(pairs) == [t |-> "dict", s |-> pairs, n |-> 0]

PyList(items) == [t |-> "list", s |-> items, n |-> 0]

False == [t |-> "bool", s |-> <<>>, n |-> 0]

JsonFail == [ok |-> FALSE, v |-> None, rest |-> <<>>]

\* whether cs starts with the characters of word
StartsWith(cs, word) ==
  Len(cs) >= Len(word) /\ SubSeq(cs, 1, Len(word)) = word

\* the length of the longest prefix of cs made of digits, - and .
RECURSIVE NumberSpan(_)
NumberSpan(cs) ==
  IF cs # <<>> /\ (IsDigit(Head(cs)) \/ Head(cs) \in {"-", "."})
    THEN 1 + NumberSpan(Tail(cs))
    ELSE 0

\* the JSON number that text spells, rest being what follows it:
\* -? int (. digits+)?, int without a leading zero unless it is 0
JsonNumberText(text, rest) ==
  LET neg == text # <<>> /\ Head(text) = "-"
      num == IF neg THEN Tail(text) ELSE text
      dot == IndexOf(num, ".")
      whole == IF dot = 0 THEN num ELSE SubSeq(num, 1, dot - 1)
      frac == IF dot = 0 THEN <<>> ELSE SubSeq(num, dot + 1, Len(num))
  IN IF ~(/\ AllDigits(whole)
          /\ (Len(whole) > 1 => Head(whole) # "0")
          /\ (dot # 0 => AllDigits(frac)))
       THEN JsonFail
       ELSE [ok |-> TRUE,
             v |-> IF dot = 0
                     THEN PyInt((IF neg THEN 0 - 1 ELSE 1) * DecimalValue(whole))
                     ELSE PyFloat((IF neg THEN 0 - 1 ELSE 1)
                                    * (100 * DecimalValue(whole) + Hundredths(frac))),
             rest |-> rest]

\* a JSON number at the start of cs: the longest run of digits, - and .
JsonNumber(cs) ==
  JsonNumberText(SubSeq(cs, 1, NumberSpan(cs)), SubSeq(cs, NumberSpan(cs) + 1, Len(cs)))

\* a JSON string at the start of cs (cs[1] is the opening quote)
JsonString(cs) ==
  LET close == IndexOf(Tail(cs), "\"")
      text == SubSeq(cs, 2, close)
  IN IF close = 0 \/ \E i \in DOMAIN text : text[i] = "\\" THEN JsonFail
     ELSE [ok |-> TRUE, v |-> PyStr(text), rest |-> SubSeq(cs, close + 2, Len(cs))]

RECURSIVE JsonValue(_), JsonMembers(_, _), JsonElements(_, _)

\* one JSON value at the start of cs, after whitespace
JsonValue(cs0) ==
  LET cs == LStrip(cs0)
  IN IF cs = <<>> THEN JsonFail
     ELSE IF Head(cs) = "{" THEN
       LET inner == LStrip(Tail(cs))
       IN IF inner # <<>> /\ Head(inner) = "}"
            THEN [ok |-> TRUE, v |-> PyDict(<<>>), rest |-> Tail(inner)]
            ELSE JsonMembers(inner, <<>>)
     ELSE IF Head(cs) = "[" THEN
       LET inner == LStrip(Tail(cs))
       IN IF inner # <<>> /\ Head(inner) = "]"
            THEN [ok |-> TRUE, v |-> PyList(<<>>), rest |-> Tail(inner)]
            ELSE JsonElements(inner, <<>>)
     ELSE IF Head(cs) = "\"" THEN JsonString(cs)
     ELSE IF StartsWith(cs, <<"t", "r", "u", "e">>)
       THEN [ok |-> TRUE, v |-> True, rest |-> SubSeq(cs, 5, Len(cs))]
     ELSE IF StartsWith(cs, <<"f", "a", "l", "s", "e">>)
       THEN [ok |-> TRUE, v |-> False, rest |-> SubSeq(cs, 6, Len(cs))]
     ELSE IF StartsWith(cs, <<"n", "u", "l", "l">>)
       THEN [ok |-> TRUE, v |-> None, rest |-> SubSeq(cs, 5, Len(cs))]
     ELSE JsonNumber(cs)

\* the members of an object, cs being at a key; acc holds the pairs so far
JsonMembers(cs, acc) ==
  IF cs = <<>> \/ Head(cs) # "\"" THEN JsonFail
  ELSE
    LET key == JsonString(cs)
        colon == LStrip(key.rest)
        val == JsonValue(Tail(colon))
        after == LStrip(val.rest)
        pairs == Append(acc, [key |-> key.v.s, val |-> val.v])
    IN IF ~key.ok \/ colon = <<>> \/ Head(colon) # ":" THEN JsonFail
       ELSE IF ~val.ok \/ after = <<>> THEN JsonFail
       ELSE IF Head(after) = "}"
         THEN [ok |-> TRUE, v |-> PyDict(pairs), rest |-> Tail(after)]
       ELSE IF Head(after) = ","
         THEN JsonMembers(LStrip(Tail(after)), pairs)
       ELSE JsonFail

\* the elements of an array, cs being at a value; acc holds the items so far
JsonElements(cs, acc) ==
  LET val == JsonValue(cs)
      after == LStrip(val.rest)
      items == Append(acc, val.v)
  IN IF ~val.ok \/ after = <<>> THEN JsonFail
     ELSE IF Head(after) = "]"
       THEN [ok |-> TRUE, v |-> PyList(items), rest |-> Tail(after)]
     ELSE IF Head(after) = ","
       THEN JsonElements(LStrip(Tail(after)), items)
     ELSE JsonFail

\* json.loads(text): ok = FALSE is json.JSONDecodeError
JsonLoads(text) ==
  LET r == JsonValue(text)
  IN IF r.ok /\ LStrip(r.rest) = <<>>
       THEN [ok |-> TRUE, v |-> r.v]
       ELSE [ok |-> FALSE, v |-> None]

(***************************************************************************)
(* String literals of the program and of the requests drawn                *)
(***************************************************************************)

\* the slugs of TOOLS, app.py
SLUG ==
  [ merge_pdf |-> <<"m","e","r","g","e","-","p","d","f">>,
    split_pdf |-> <<"s","p","l","i","t","-","p","d","f">>,
    compress_pdf |-> <<"c","o","m","p","r","e","s","s","-","p","d","f">>,
    optimize_pdf |-> <<"o","p","t","i","m","i","z","e","-","p","d","f">>,
    rotate_pdf |-> <<"r","o","t","a","t","e","-","p","d","f">>,
    watermark_pdf |-> <<"w","a","t","e","r","m","a","r","k","-","p","d","f">>,
    number_pdf |-> <<"n","u","m","b","e","r","-","p","d","f">>,
    protect_pdf |-> <<"p","r","o","t","e","c","t","-","p","d","f">>,
    unlock_pdf |-> <<"u","n","l","o","c","k","-","p","d","f">>,
    repair_pdf |-> <<"r","e","p","a","i","r","-","p","d","f">>,
    organize_pdf |-> <<"o","r","g","a","n","i","z","e","-","p","d","f">>,
    sign_pdf |-> <<"s","i","g","n","-","p","d","f">>,
    annotate_pdf |-> <<"a","n","n","o","t","a","t","e","-","p","d","f">>,
    redact_pdf |-> <<"r","e","d","a","c","t","-","p","d","f">>,
    pdf_to_word |-> <<"p","d","f","-","t","o","-","w","o","r","d">>,
    word_to_pdf |-> <<"w","o","r","d","-","t","o","-","p","d","f">>,
    pdf_to_image |-> <<"p","d","f","-","t","o","-","i","m","a","g","e">>,
    image_to_pdf |-> <<"i","m","a","g","e","-","t","o","-","p","d","f">>,
    pdf_to_excel |-> <<"p","d","f","-","t","o","-","e","x","c","e","l">>,
    excel_to_pdf |-> <<"e","x","c","e","l","-","t","o","-","p","d","f">>,
    pdf_to_powerpoint |-> <<"p","d","f","-","t","o","-","p","o","w","e","r","p","o","i","n","t">>,
    powerpoint_to_pdf |-> <<"p","o","w","e","r","p","o","i","n","t","-","t","o","-","p","d","f">>,
    ocr_pdf |-> <<"o","c","r","-","p","d","f">>,
    extract_text |-> <<"e","x","t","r","a","c","t","-","t","e","x","t">>,
    extract_images |-> <<"e","x","t","r","a","c","t","-","i","m","a","g","e","s">>,
    deskew_pdf |-> <<"d","e","s","k","e","w","-","p","d","f">>,
    crop_pdf |-> <<"c","r","o","p","-","p","d","f">>,
    resize_pdf |-> <<"r","e","s","i","z","e","-","p","d","f">>,
    flatten_pdf |-> <<"f","l","a","t","t","e","n","-","p","d","f">>,
    metadata_editor |-> <<"m","e","t","a","d","a","t","a","-","e","d","i","t","o","r">>,
    fill_forms |-> <<"f","i","l","l","-","f","o","r","m","s">>,
    background_remover |-> <<"b","a","c","k","g","r","o","u","n","d","-","r","e","m","o","v","e","r">> ]

\* the other string literals: the code's defaults and keywords, and the
\* form values, file names and slugs that requests are drawn from
STR ==
  [ empty |-> <<>>,
    zero |-> <<"0">>,
    one |-> <<"1">>,
    two |-> <<"2">>,
    three |-> <<"3">>,
    nine |-> <<"9">>,
    high |-> <<"h","i","g","h">>,
    hq |-> <<"h","q">>,
    low |-> <<"l","o","w">>,
    smallest |-> <<"s","m","a","l","l","e","s","t">>,
    medium |-> <<"m","e","d","i","u","m">>,
    confidential |-> <<"C","O","N","F","I","D","E","N","T","I","A","L">>,
    opacity_default |-> <<"0",".","1","5">>,
    center |-> <<"c","e","n","t","e","r">>,
    a4 |-> <<"A","4">>,
    eng |-> <<"e","n","g">>,
    braces |-> <<"{","}">>,
    deg45 |-> <<"4","5">>,
    deg90 |-> <<"9","0">>,
    deg135 |-> <<"1","3","5">>,
    deg180 |-> <<"1","8","0">>,
    deg225 |-> <<"2","2","5">>,
    deg350 |-> <<"3","5","0">>,
    minus90 |-> <<"-","9","0">>,
    deg450 |-> <<"4","5","0">>,
    ninety |-> <<"n","i","n","e","t","y">>,
    level3_padded |-> <<" ","3"," ">>,
    half |-> <<"0",".","5">>,
    abc |-> <<"a","b","c">>,
    ten |-> <<"1","0">>,
    bar |-> <<"b","a","r">>,
    pages_1_2 |-> <<"1","-","2">>,
    order_2_1 |-> <<"2",",","1">>,
    secret |-> <<"s","e","c","r","e","t">>,
    draft |-> <<"D","R","A","F","T">>,
    letter |-> <<"l","e","t","t","e","r">>,
    deu |-> <<"d","e","u">>,
    top_left |-> <<"t","o","p","-","l","e","f","t">>,
    json_fields |-> <<"{","\"","n","a","m","e","\"",":","\"","x","\"","}">>,
    json_broken |-> <<"{","b","a","d">>,
    json_array |-> <<"[","1","]">>,
    json_region |-> <<"{","\"","1","\"",":","{","\"","x","\"",":","0",".","1",",","\"","y","\"",":","0",".","1",",","\"","w","i","d","t","h","\"",":","0",".","5",",","\"","h","e","i","g","h","t","\"",":","0",".","5","}","}">>,
    png |-> <<".","p","n","g">>,
    jpg |-> <<".","j","p","g">>,
    jpeg |-> <<".","j","p","e","g">>,
    webp |-> <<".","w","e","b","p">>,
    pdf |-> <<".","p","d","f">>,
    docx |-> <<".","d","o","c","x">>,
    xlsx |-> <<".","x","l","s","x">>,
    pptx |-> <<".","p","p","t","x">>,
    zip |-> <<".","z","i","p">>,
    txt |-> <<".","t","x","t">>,
    a_pdf |-> <<"a",".","p","d","f">>,
    c_pdf |-> <<"c",".","p","d","f">>,
    b_png |-> <<"b",".","p","n","g">>,
    dotdot |-> <<".",".">>,
    sig_png |-> <<"s","i","g",".","p","n","g">>,
    unknown_tool_xyz |-> <<"u","n","k","n","o","w","n","-","t","o","o","l","-","x","y","z">>,
    Merge_PDF |-> <<"M","e","r","g","e","-","P","D","F">>,
    merge_pdf_padded |-> <<" ","m","e","r","g","e","-","p","d","f"," ">> ]

\* TOOLS, in the order of the list (the slug of each entry)
TOOLS ==
  << SLUG.merge_pdf, SLUG.split_pdf, SLUG.compress_pdf, SLUG.optimize_pdf,
     SLUG.rotate_pdf, SLUG.watermark_pdf, SLUG.number_pdf, SLUG.protect_pdf,
     SLUG.unlock_pdf, SLUG.repair_pdf, SLUG.organize_pdf, SLUG.sign_pdf,
     SLUG.annotate_pdf, SLUG.redact_pdf, SLUG.pdf_to_word, SLUG.word_to_pdf,
     SLUG.pdf_to_image, SLUG.image_to_pdf, SLUG.pdf_to_excel,
     SLUG.excel_to_pdf, SLUG.pdf_to_powerpoint, SLUG.powerpoint_to_pdf,
     SLUG.ocr_pdf, SLUG.extract_text, SLUG.extract_images, SLUG.deskew_pdf,
     SLUG.crop_pdf, SLUG.resize_pdf, SLUG.flatten_pdf, SLUG.metadata_editor,
     SLUG.fill_forms, SLUG.background_remover >>

\* a lookup that misses the last entry of TOOLS; C24 tells it from the
\* lookup of process_tool
IsRegistered_WithoutLast(slug) == \E i \in 1..(Len(TOOLS) - 1) : TOOLS[i] = slug

\* next((t for t in TOOLS if t["slug"] == slug), None) is not None
IsRegistered(slug) == \E i \in DOMAIN TOOLS : TOOLS[i] = slug

(***************************************************************************)
(* Messages: a text is a sequence of parts, a literal of the code or a     *)
(* value formatted into it, so that "the text shows the value" can be told *)
(***************************************************************************)

Lit(template) == <<[k |-> "lit", lit |-> template, val |-> <<>>]>>

Fmt(cs) == <<[k |-> "val", lit |-> "", val |-> cs]>>

(***************************************************************************)
(* _save_uploads                                                           *)
(***************************************************************************)

\* the characters secure_filename keeps: [A-Za-z0-9_.-]
IsFilenameChar(c) ==
  \/ IsDigit(c)
  \/ \E i \in DOMAIN UpperCase : c \in {UpperCase[i], LowerCase[i]}
  \/ c \in {"_", ".", "-"}

\* "_".join(filename.split()) with the path separator read as a space;
\* started: a word has begun; gap: whitespace was met since its last character
RECURSIVE JoinWords(_, _, _)
JoinWords(cs, started, gap) ==
  IF cs = <<>> THEN <<>>
  ELSE IF Head(cs) \in Whitespace \cup {"/"} THEN JoinWords(Tail(cs), started, TRUE)
  ELSE (IF started /\ gap THEN <<"_">> ELSE <<>>) \o <<Head(cs)>>
         \o JoinWords(Tail(cs), TRUE, FALSE)

RECURSIVE StripDotsUnderscores(_)
StripDotsUnderscores(cs) ==
  IF cs # <<>> /\ Head(cs) \in {".", "_"} THEN StripDotsUnderscores(Tail(cs))
  ELSE IF cs # <<>> /\ cs[Len(cs)] \in {".", "_"}
    THEN StripDotsUnderscores(SubSeq(cs, 1, Len(cs) - 1))
  ELSE cs

\* werkzeug.utils.secure_filename on an ASCII name
SecureFilename(cs) ==
  StripDotsUnderscores(SelectSeq(JoinWords(cs, FALSE, FALSE), IsFilenameChar))

\* os.path.join(UPLOAD_FOLDER, f"{uid}_{filename}") and what f.save put there
UploadPath(uid, filename, body) ==
  [folder |-> "uploads", uid |-> uid, name |-> filename, body |-> body]

\* _save_uploads(files): uids[i] is the uuid4().hex[:8] drawn for files[i]
RECURSIVE SaveUploadsFrom(_, _, _)
SaveUploadsFrom(files, uids, i) ==
  IF i > Len(files) THEN <<>>
  ELSE
    LET f == files[i]
        filename == SecureFilename(f.filename)
    IN IF f.filename = <<>> THEN SaveUploadsFrom(files, uids, i + 1)
       ELSE IF filename = <<>> THEN SaveUploadsFrom(files, uids, i + 1)
       ELSE <<UploadPath(uids[i], filename, f.body)>>
              \o SaveUploadsFrom(files, uids, i + 1)

SaveUploads(files, uids) == SaveUploadsFrom(files, uids, 1)

(***************************************************************************)
(* _map_options                                                            *)
(***************************************************************************)

\* a lookup that gives the empty text for an absent field, whatever the
\* default; C13 tells it from form.get
FormGet_NoDefault(form, key, default) == IF key \in DOMAIN form THEN form[key] ELSE <<>>

\* form.get(key, default) on the request's form (every value is a str)
FormGet(form, key, default) == IF key \in DOMAIN form THEN form[key] ELSE default

\* the loop over the metadata keys: options[key] = val for each val present
MetadataKeys == <<"title", "author", "subject", "keywords", "creator", "producer">>

RECURSIVE MapMetadata(_, _, _, _)
MapMetadata(slug, options, form, i) ==
  IF slug # SLUG.metadata_editor \/ i > Len(MetadataKeys) THEN options
  ELSE LET key == MetadataKeys[i]
       IN MapMetadata(slug,
                      IF FormGet(form, key, <<>>) # <<>>
                        THEN Put(options, key, PyStr(FormGet(form, key, <<>>)))
                        ELSE options,
                      form, i + 1)

\* `if cond: options[k] = v`
PutIf(cond, options, k, v) == IF cond THEN Put(options, k, v) ELSE options

\* the body of _map_options, started from the dict `initial`; o1 .. o12 are
\* the dict after each of its sections
MapOptionsFrom(initial, slug, form) ==
  LET pages == Strip(FormGet(form, "pages", <<>>))
      o1 == PutIf(pages # <<>>,
                  PutIf(pages # <<>>, initial, "pages", PyStr(pages)),
                  "page_range", PyStr(pages))
      password == Strip(FormGet(form, "password", <<>>))
      o2 == PutIf(password # <<>>,
                  PutIf(password # <<>>, o1, "password", PyStr(password)),
                  "new_password", PyStr(password))
      watermark_text == Strip(FormGet(form, "watermark_text", <<>>))
      o3 == PutIf(watermark_text # <<>>, o2, "watermark_text", PyStr(watermark_text))
      o4 == PutIf("keep_filename_hidden" \in DOMAIN form
                    /\ form["keep_filename_hidden"] = <<"1">>,
                  o3, "keep_filename", True)
      \* Compress
      o5 == PutIf(slug = SLUG.compress_pdf, o4, "compression_level",
                  PyStr(FormGet(form, "compression_level", <<"2">>)))
      \* Rotate
      o6 == PutIf(slug = SLUG.rotate_pdf, o5, "angle",
                  PyInt(OrDefault(ParseInt(PyStr(FormGet(form, "rotation_angle", <<"0">>))), 0)))
      \* Watermark
      o7 == PutIf(slug = SLUG.watermark_pdf,
                  PutIf(slug = SLUG.watermark_pdf,
                        PutIf(slug = SLUG.watermark_pdf /\ "watermark_text" \notin DOMAIN o6,
                              o6, "watermark_text",
                              PyOr(PyStr(watermark_text), PyStr(STR.confidential))),
                        "watermark_opacity",
                        PyStr(FormGet(form, "watermark_opacity", <<"0", ".", "1", "5">>))),
                  "watermark_position",
                  PyStr(FormGet(form, "watermark_position", STR.center)))
      \* Reorder / delete (organize and crop)
      organizes == slug \in {SLUG.organize_pdf, SLUG.crop_pdf}
      order == Strip(FormGet(form, "page_order", <<>>))
      deleted_ui == Strip(FormGet(form, "deleted_pages", <<>>))
      deleted_legacy == Strip(FormGet(form, "delete_pages", <<>>))
      deleted_final == IF deleted_ui # <<>> THEN deleted_ui ELSE deleted_legacy
      o8 == PutIf(organizes /\ deleted_final # <<>>,
                  PutIf(organizes /\ order # <<>>, o7, "page_order", PyStr(order)),
                  "delete_pages", PyStr(deleted_final))
      \* Crop
      crop_regions == Strip(FormGet(form, "crop_regions", <<>>))
      regions == slug = SLUG.crop_pdf /\ crop_regions # <<>>
      margins == slug = SLUG.crop_pdf /\ crop_regions = <<>>
      o9 == PutIf(margins, PutIf(margins, PutIf(margins, PutIf(margins,
              PutIf(regions, o8, "crop_regions", PyStr(crop_regions)),
              "crop_top", PyStr(FormGet(form, "crop_top", <<"0">>))),
              "crop_right", PyStr(FormGet(form, "crop_right", <<"0">>))),
              "crop_bottom", PyStr(FormGet(form, "crop_bottom", <<"0">>))),
              "crop_left", PyStr(FormGet(form, "crop_left", <<"0">>)))
      \* Resize
      o10 == PutIf(slug = SLUG.resize_pdf, o9, "page_size",
                   PyStr(FormGet(form, "page_size", <<"A", "4">>)))
      \* OCR language
      o11 == PutIf(slug = SLUG.ocr_pdf, o10, "ocr_lang",
                   PyStr(FormGet(form, "ocr_lang", <<"e", "n", "g">>)))
      \* Metadata
      o12 == MapMetadata(slug, o11, form, 1)
      \* Fill forms
  IN PutIf(slug = SLUG.fill_forms, o12, "form_data_json",
           PyStr(FormGet(form, "form_data_json", <<"{", "}">>)))

\* a mapping that starts from a copy of the form instead of {}; C3 tells it
\* from _map_options
MapOptions_CopiesForm(slug, form) ==
  MapOptionsFrom([k \in DOMAIN form |-> PyStr(form[k])], slug, form)

\* _map_options(slug, form): options = {} and then the mapping
MapOptions(slug, form) == MapOptionsFrom(EmptyDict, slug, form)

\* a try block without an except clause: the exception goes on; C11 tells
\* it from the try block of _map_options
ExceptNothing(cls) == cls

\* `try: ... except ValueError: ...`: the class of the exception that leaves
\* the statement when the try block raised cls ("" is no exception)
ExceptValueError(cls) == IF cls = "ValueError" THEN "" ELSE cls

\* the class of the exception that leaves _map_options, "" when it returns:
\* int(angle_raw) is the one call in it that raises on a text, and it
\* raises ValueError
MapOptionsError(slug, form) ==
  IF slug = SLUG.rotate_pdf
    THEN ExceptValueError(
           IF ParseInt(PyStr(FormGet(form, "rotation_angle", <<"0">>))).ok
             THEN "" ELSE "ValueError")
    ELSE ""

(***************************************************************************)
(* Files, results and exceptions of the processor                          *)
(***************************************************************************)

\* the download names the routines return
NAME ==
  [ merged_pdf |-> <<"m","e","r","g","e","d",".","p","d","f">>,
    split_pdf |-> <<"s","p","l","i","t",".","p","d","f">>,
    compressed_pdf |-> <<"c","o","m","p","r","e","s","s","e","d",".","p","d","f">>,
    optimized_pdf |-> <<"o","p","t","i","m","i","z","e","d",".","p","d","f">>,
    rotated_pdf |-> <<"r","o","t","a","t","e","d",".","p","d","f">>,
    protected_pdf |-> <<"p","r","o","t","e","c","t","e","d",".","p","d","f">>,
    unlocked_pdf |-> <<"u","n","l","o","c","k","e","d",".","p","d","f">>,
    repaired_pdf |-> <<"r","e","p","a","i","r","e","d",".","p","d","f">>,
    organized_pdf |-> <<"o","r","g","a","n","i","z","e","d",".","p","d","f">>,
    watermarked_pdf |-> <<"w","a","t","e","r","m","a","r","k","e","d",".","p","d","f">>,
    numbered_pdf |-> <<"n","u","m","b","e","r","e","d",".","p","d","f">>,
    signed_pdf |-> <<"s","i","g","n","e","d",".","p","d","f">>,
    annotated_pdf |-> <<"a","n","n","o","t","a","t","e","d",".","p","d","f">>,
    redacted_pdf |-> <<"r","e","d","a","c","t","e","d",".","p","d","f">>,
    converted_docx |-> <<"c","o","n","v","e","r","t","e","d",".","d","o","c","x">>,
    converted_pdf |-> <<"c","o","n","v","e","r","t","e","d",".","p","d","f">>,
    images_zip |-> <<"i","m","a","g","e","s",".","z","i","p">>,
    images_pdf |-> <<"i","m","a","g","e","s",".","p","d","f">>,
    converted_xlsx |-> <<"c","o","n","v","e","r","t","e","d",".","x","l","s","x">>,
    converted_pptx |-> <<"c","o","n","v","e","r","t","e","d",".","p","p","t","x">>,
    ocr_pdf |-> <<"o","c","r",".","p","d","f">>,
    extracted_txt |-> <<"e","x","t","r","a","c","t","e","d",".","t","x","t">>,
    deskewed_pdf |-> <<"d","e","s","k","e","w","e","d",".","p","d","f">>,
    cropped_pdf |-> <<"c","r","o","p","p","e","d",".","p","d","f">>,
    resized_pdf |-> <<"r","e","s","i","z","e","d",".","p","d","f">>,
    flattened_pdf |-> <<"f","l","a","t","t","e","n","e","d",".","p","d","f">>,
    metadata_pdf |-> <<"m","e","t","a","d","a","t","a",".","p","d","f">>,
    filled_pdf |-> <<"f","i","l","l","e","d",".","p","d","f">>,
    no_background_png |-> <<"n","o","-","b","a","c","k","g","r","o","u","n","d",".","p","n","g">> ]

\* os.path.splitext on a file name: the extension starts at the last dot,
\* unless only dots come before it
Splitext(cs) ==
  LET dots == {i \in DOMAIN cs : cs[i] = "."}
      last == IF dots = {} THEN 0 ELSE CHOOSE i \in dots : \A j \in dots : j <= i
      leading == last # 0 /\ \A j \in 1..(last - 1) : cs[j] = "."
  IN IF last = 0 \/ leading
       THEN [base |-> cs, ext |-> <<>>]
       ELSE [base |-> SubSeq(cs, 1, last - 1), ext |-> SubSeq(cs, last, Len(cs))]

\* what a file holds: its kind, its pages (kind pdf) and its open password
Content(kind, pages) == [kind |-> kind, pages |-> pages, save |-> <<>>]

\* a page: its identity, its /Rotate entry, its size in points and its crop
\* box in hundredths of a point
Page(id) ==
  [id |-> id, rotate |-> 0, width |-> 600, height |-> 800,
   crop |-> [x0 |-> 0, y0 |-> 0, x1 |-> 60000, y1 |-> 80000]]

\* PDFProcessor._tmp_file(suffix): tempfile.mkstemp in tempfile.tempdir, which
\* app.py sets to the upload folder; uid 0 stands for mkstemp's fresh name
TmpFile(suffix, content) ==
  [folder |-> "uploads", uid |-> 0, name |-> <<"t", "m", "p">> \o suffix,
   body |-> content]

\* the server a request runs on: whether the Tesseract binary and the rembg
\* package are installed, whether the host has a mime.types file that names
\* the Office types, and the paths of the signature images on its disk
Server(tesseract, rembg, mime_types, files) ==
  [tesseract |-> tesseract, rembg |-> rembg, mime_types |-> mime_types, files |-> files]

\* a server with every dependency and no signature image
UsualServer == Server(TRUE, TRUE, TRUE, {})

NoPath == [folder |-> "", uid |-> 0, name |-> <<>>, body |-> Content("none", <<>>)]

NoExc == [cls |-> "", msg |-> <<>>]

NoOut == [path |-> NoPath, name |-> <<>>, mime |-> ""]

\* return out_path, download_name, mimetype
Return(path, name, mime) ==
  [raised |-> FALSE, exc |-> NoExc, out |-> [path |-> path, name |-> name, mime |-> mime]]

\* raise cls(msg)
Raise(cls, msg) == [raised |-> TRUE, exc |-> [cls |-> cls, msg |-> msg], out |-> NoOut]

\* raise PDFProcessorError(msg)
RaiseProcessorError(msg) == Raise("PDFProcessorError", msg)

\* what PyPDF2, PyMuPDF, Pillow, python-docx, openpyxl and python-pptx raise on
\* a file they cannot read: an Exception that is no PDFProcessorError
LibraryError == Raise("LibraryError", Lit("cannot read the input file"))

\* ValueError of int() and float()
ValueError(text) == Raise("ValueError", Lit("invalid literal: ") \o Fmt(text))

MimePdf == "application/pdf"

MimeDocx == "application/vnd.openxmlformats-officedocument.wordprocessingml.document"

MimeXlsx == "application/vnd.openxmlformats-officedocument.spreadsheetml.sheet"

MimePptx == "application/vnd.openxmlformats-officedocument.presentationml.presentation"

\* a routine that opens `path` with a library that reads `kind`, and saves
\* the pages unchanged under a new temporary file
Resave(path, kind, suffix, outKind, name, mime) ==
  IF path.body.kind # kind THEN LibraryError
  ELSE Return(TmpFile(suffix, Content(outKind, path.body.pages)), name, mime)

(***************************************************************************)
(* PDFProcessor helpers                                                    *)
(***************************************************************************)

\* str.split(sep): the pieces of cs between the occurrences of sep
RECURSIVE Split(_, _)
Split(cs, sep) ==
  IF IndexOf(cs, sep) = 0 THEN <<cs>>
  ELSE <<SubSeq(cs, 1, IndexOf(cs, sep) - 1)>>
         \o Split(SubSeq(cs, IndexOf(cs, sep) + 1, Len(cs)), sep)

\* sorted(pages) for a set of ints
RECURSIVE Sorted(_)
Sorted(S) ==
  IF S = {} THEN <<>>
  ELSE LET least == CHOOSE x \in S : \A y \in S : x <= y
       IN <<least>> \o Sorted(S \ {least})

\* list(range(total))
Range(total) == [i \in 1..total |-> i - 1]

\* the pages one part of a specification adds; ok = FALSE is the ValueError
\* of int(start_str) or int(end_str), which the code does not catch, while a
\* part without a dash that is no number, or no page, adds nothing
PagesOfPart(part, total) ==
  LET dash == IndexOf(part, "-")
      start_str == SubSeq(part, 1, dash - 1)
      end_str == SubSeq(part, dash + 1, Len(part))
      start == IF start_str # <<>> THEN ParseInt(PyStr(start_str)) ELSE [ok |-> TRUE, n |-> 1]
      end == IF end_str # <<>> THEN ParseInt(PyStr(end_str)) ELSE [ok |-> TRUE, n |-> total]
  IN IF dash # 0
       THEN [ok |-> start.ok /\ end.ok,
             pages |-> {p - 1 : p \in {q \in OrDefault(start, 1)..OrDefault(end, 0) :
                                         1 <= q /\ q <= total}}]
       ELSE [ok |-> TRUE,
             pages |-> {p - 1 : p \in {OrDefault(ParseInt(PyStr(part)), 0)} \cap 1..total}]

\* the sorted union of what the parts add
PagesOfEach(each) ==
  IF \E i \in DOMAIN each : ~each[i].ok
    THEN [ok |-> FALSE, pages |-> <<>>]
    ELSE [ok |-> TRUE, pages |-> Sorted(UNION {each[i].pages : i \in DOMAIN each})]

\* PDFProcessor._page_ranges_to_list(spec, total_pages)
PageRangesToList(spec, total_pages) ==
  IF spec = <<>> THEN [ok |-> TRUE, pages |-> Range(total_pages)]
  ELSE
    LET pieces == Split(spec, ",")
        parts == SelectSeq([i \in DOMAIN pieces |-> Strip(pieces[i])],
                           LAMBDA p : p # <<>>)
    IN PagesOfEach([i \in DOMAIN parts |-> PagesOfPart(parts[i], total_pages)])

\* a normaliser that folds level "3" into the medium tier; C6 tells it from
\* _normalize_compression_level
NormalizeCompressionLevel_ThreeIsMedium(raw) ==
  IF Lower(Strip(raw)) \in {<<"1">>, STR.high, STR.hq} THEN STR.high
  ELSE STR.medium

\* PDFProcessor._normalize_compression_level(raw)
NormalizeCompressionLevel(raw) ==
  IF Lower(Strip(raw)) \in {<<"1">>, STR.high, STR.hq} THEN STR.high
  ELSE IF Lower(Strip(raw)) \in {<<"3">>, STR.low, STR.smallest} THEN STR.low
  ELSE STR.medium
(***************************************************************************)
(* The conversion routines. Each returns Return(..) or Raise(..).          *)
(***************************************************************************)

RECURSIVE ConcatPages(_, _)
ConcatPages(paths, i) ==
  IF i > Len(paths) THEN <<>>
  ELSE paths[i].body.pages \o ConcatPages(paths, i + 1)

\* merge_pdfs(paths)
merge_pdfs(paths) ==
  IF \E i \in DOMAIN paths : paths[i].body.kind # "pdf" THEN LibraryError
  ELSE Return(TmpFile(STR.pdf, Content("pdf", ConcatPages(paths, 1))),
              NAME.merged_pdf, MimePdf)

\* split_pdf once the specification is read: an empty list keeps every page
SplitAt(path, pages_spec, listed) ==
  LET indices == IF listed.pages = <<>> THEN Range(Len(path.body.pages)) ELSE listed.pages
  IN IF ~listed.ok THEN ValueError(pages_spec)
     ELSE Return(TmpFile(STR.pdf,
                   Content("pdf", [i \in DOMAIN indices |-> path.body.pages[indices[i] + 1]])),
                 NAME.split_pdf, MimePdf)

\* split_pdf(path, pages_spec)
split_pdf(path, pages_spec) ==
  IF path.body.kind # "pdf" THEN LibraryError
  ELSE SplitAt(path, pages_spec, PageRangesToList(pages_spec, Len(path.body.pages)))

\* the keyword arguments compress_pdf passes to doc.save for a level
SaveKwargs(level) ==
  [deflate |-> TRUE, clean |-> TRUE, linear |-> TRUE, compress |-> TRUE,
   compress_images |-> TRUE,
   garbage |-> IF level = STR.high THEN 2 ELSE IF level = STR.low THEN 4 ELSE 3,
   image_quality |-> IF level = STR.high THEN 95 ELSE IF level = STR.low THEN 60 ELSE 80]

\* compress_pdf(path, level)
compress_pdf(path, level) ==
  IF path.body.kind # "pdf" THEN LibraryError
  ELSE Return(TmpFile(STR.pdf,
                [kind |-> "pdf", pages |-> path.body.pages, save |-> SaveKwargs(level)]),
              NAME.compressed_pdf, MimePdf)

\* optimize_pdf(path)
optimize_pdf(path) ==
  Resave(path, "pdf", STR.pdf, "pdf", NAME.optimized_pdf, MimePdf)

RotateCandidates == <<0, 90, 180, 270>>

\* |a - b|
Distance(a, b) == IF a >= b THEN a - b ELSE b - a

\* min(candidates, key=lambda a: abs(a - angle)): the first candidate at
\* the least distance
NearestCandidate(angle) ==
  LET first == CHOOSE i \in DOMAIN RotateCandidates :
                 /\ \A j \in DOMAIN RotateCandidates :
                      Distance(RotateCandidates[i], angle)
                        <= Distance(RotateCandidates[j], angle)
                 /\ \A j \in 1..(i - 1) :
                      Distance(RotateCandidates[j], angle)
                        > Distance(RotateCandidates[i], angle)
  IN RotateCandidates[first]

\* the angle rotate_pdf applies: angle % 360, snapped when it is not allowed
NormalizeAngle(angle) ==
  LET a == angle % 360
  IN IF a \in {0, 90, 180, 270} THEN a ELSE NearestCandidate(a)

\* page.rotate(angle) of PyPDF2: the angle is added to the page's /Rotate
RotatePage(page, angle) == [page EXCEPT !.rotate = (page.rotate + angle) % 360]

\* rotate_pdf(path, angle)
rotate_pdf(path, angle) ==
  LET applied == NormalizeAngle(angle)
  IN IF path.body.kind # "pdf" THEN LibraryError
     ELSE Return(TmpFile(STR.pdf,
                   Content("pdf", [i \in DOMAIN path.body.pages |->
                                     IF applied # 0
                                       THEN RotatePage(path.body.pages[i], applied)
                                       ELSE path.body.pages[i]])),
                 NAME.rotated_pdf, MimePdf)

\* watermark_pdf(path, text, opacity, position)
watermark_pdf(path, text, opacity, position) ==
  Resave(path, "pdf", STR.pdf, "pdf", NAME.watermarked_pdf, MimePdf)

\* number_pdf(path, position)
number_pdf(path, position) ==
  Resave(path, "pdf", STR.pdf, "pdf", NAME.numbered_pdf, MimePdf)

\* protect_pdf(path, password)
protect_pdf(path, password) ==
  Resave(path, "pdf", STR.pdf, "pdf", NAME.protected_pdf, MimePdf)

\* unlock_pdf(path, password): the drawn files are not encrypted
unlock_pdf(path, password) ==
  Resave(path, "pdf", STR.pdf, "pdf", NAME.unlocked_pdf, MimePdf)

\* repair_pdf(path)
repair_pdf(path) ==
  Resave(path, "pdf", STR.pdf, "pdf", NAME.repaired_pdf, MimePdf)

\* organize_pdf once both specifications are read, the deletions first
OrganizeBy(path, order_spec, delete_spec, deleted, ordered) ==
  LET total == Len(path.body.pages)
      delete == {deleted.pages[i] : i \in DOMAIN deleted.pages}
      kept == SelectSeq(ordered.pages,
                        LAMBDA idx : idx \notin delete /\ 0 <= idx /\ idx < total)
  IN IF ~deleted.ok THEN ValueError(delete_spec)
     ELSE IF ~ordered.ok THEN ValueError(order_spec)
     ELSE Return(TmpFile(STR.pdf,
                   Content("pdf", [i \in DOMAIN kept |-> path.body.pages[kept[i] + 1]])),
                 NAME.organized_pdf, MimePdf)

\* organize_pdf(path, order_spec, delete_spec)
organize_pdf(path, order_spec, delete_spec) ==
  IF path.body.kind # "pdf" THEN LibraryError
  ELSE OrganizeBy(path, order_spec, delete_spec,
                  IF delete_spec # <<>>
                    THEN PageRangesToList(delete_spec, Len(path.body.pages))
                    ELSE [ok |-> TRUE, pages |-> <<>>],
                  IF order_spec # <<>>
                    THEN PageRangesToList(order_spec, Len(path.body.pages))
                    ELSE [ok |-> TRUE, pages |-> Range(Len(path.body.pages))])

\* sign_pdf(path, signature_image_path)
sign_pdf(path, signature_image_path) ==
  Resave(path, "pdf", STR.pdf, "pdf", NAME.signed_pdf, MimePdf)

\* annotate_pdf(path, text)
annotate_pdf(path, text) ==
  Resave(path, "pdf", STR.pdf, "pdf", NAME.annotated_pdf, MimePdf)

\* redact_pdf(path, text)
redact_pdf(path, text) ==
  Resave(path, "pdf", STR.pdf, "pdf", NAME.redacted_pdf, MimePdf)

\* pdf_to_word(path)
pdf_to_word(path) ==
  Resave(path, "pdf", STR.docx, "docx", NAME.converted_docx, MimeDocx)

\* word_to_pdf(path)
word_to_pdf(path) ==
  Resave(path, "docx", STR.pdf, "pdf", NAME.converted_pdf, MimePdf)

\* pdf_to_images(path, image_format, dpi)
pdf_to_images(path, image_format, dpi) ==
  Resave(path, "pdf", STR.zip, "zip", NAME.images_zip, "application/zip")

\* images_to_pdf(paths); paths is never empty here, process returned before
images_to_pdf(paths) ==
  IF \E i \in DOMAIN paths : paths[i].body.kind # "image" THEN LibraryError
  ELSE Return(TmpFile(STR.pdf, Content("pdf", [i \in DOMAIN paths |-> Page("image")])),
              NAME.images_pdf, MimePdf)

\* pdf_to_excel(path)
pdf_to_excel(path) ==
  Resave(path, "pdf", STR.xlsx, "xlsx", NAME.converted_xlsx, MimeXlsx)

\* excel_to_pdf(path)
excel_to_pdf(path) ==
  Resave(path, "xlsx", STR.pdf, "pdf", NAME.converted_pdf, MimePdf)

\* pdf_to_powerpoint(path)
pdf_to_powerpoint(path) ==
  Resave(path, "pdf", STR.pptx, "pptx", NAME.converted_pptx, MimePptx)

\* powerpoint_to_pdf(path)
powerpoint_to_pdf(path) ==
  Resave(path, "pptx", STR.pdf, "pdf", NAME.converted_pdf, MimePdf)

\* ocr_pdf(path, lang): pytesseract is called once per page, and raises
\* TesseractNotFoundError when the binary is absent
ocr_pdf(path, lang, env) ==
  IF path.body.kind # "pdf" THEN LibraryError
  ELSE IF path.body.pages # <<>> /\ ~env.tesseract
    THEN RaiseProcessorError(Lit("Tesseract OCR binary not found on server. Install it to enable OCR functionality."))
  ELSE Return(TmpFile(STR.pdf, Content("pdf", path.body.pages)), NAME.ocr_pdf, MimePdf)

\* extract_text(path)
extract_text(path) ==
  Resave(path, "pdf", STR.txt, "txt", NAME.extracted_txt, "text/plain")

\* extract_images(path): every drawn PDF page carries an image
extract_images(path) ==
  IF path.body.kind # "pdf" THEN LibraryError
  ELSE IF path.body.pages = <<>>
    THEN RaiseProcessorError(Lit("No embedded images found in PDF."))
  ELSE Return(TmpFile(STR.zip, Content("zip", path.body.pages)),
              NAME.images_zip, "application/zip")

\* deskew_pdf(path): pytesseract.image_to_osd is called once per page
deskew_pdf(path, env) ==
  IF path.body.kind # "pdf" THEN LibraryError
  ELSE IF path.body.pages # <<>> /\ ~env.tesseract
    THEN RaiseProcessorError(Lit("Tesseract OCR binary not found on server. Install it to enable deskew functionality."))
  ELSE Return(TmpFile(STR.pdf, Content("pdf", path.body.pages)),
              NAME.deskewed_pdf, MimePdf)

\* page.set_cropbox(rect) of PyMuPDF: ValueError when rect leaves the page
\* (ok = FALSE); rect is in hundredths of a point
CropboxFits(page, rect) ==
  /\ 0 <= rect.x0 /\ rect.x1 <= 100 * page.width
  /\ 0 <= rect.y0 /\ rect.y1 <= 100 * page.height

\* the page loop of crop_pdf for one page: the new rect, or the page as it is
\* when the rect is empty
CropByMargins(page, top, right, bottom, left) ==
  LET new_rect == [x0 |-> left, y0 |-> top,
                   x1 |-> 100 * page.width - right, y1 |-> 100 * page.height - bottom]
  IN IF new_rect.x1 - new_rect.x0 <= 0 \/ new_rect.y1 - new_rect.y0 <= 0
       THEN [ok |-> TRUE, page |-> page]
       ELSE [ok |-> CropboxFits(page, new_rect), page |-> [page EXCEPT !.crop = new_rect]]

\* crop_pdf(path, top, right, bottom, left), the margins in hundredths
crop_pdf(path, top, right, bottom, left) ==
  IF path.body.kind # "pdf" THEN LibraryError
  ELSE
    LET each == [i \in DOMAIN path.body.pages |->
                   CropByMargins(path.body.pages[i], top, right, bottom, left)]
    IN IF \E i \in DOMAIN each : ~each[i].ok
         THEN Raise("ValueError", Lit("CropBox not in MediaBox"))
         ELSE Return(TmpFile(STR.pdf, Content("pdf", [i \in DOMAIN each |-> each[i].page])),
                     NAME.cropped_pdf, MimePdf)

\* str(n) for n >= 0
RECURSIVE IntToStr(_)
IntToStr(n) ==
  IF n < 10 THEN <<Digits[n + 1]>>
  ELSE IntToStr(n \div 10) \o <<Digits[(n % 10) + 1]>>

\* dict.get(key) on a parsed JSON object: the last pair with the key
DictGet(d, key) ==
  LET hits == {i \in DOMAIN d.s : d.s[i].key = key}
  IN IF hits = {} THEN None
     ELSE d.s[CHOOSE i \in hits : \A j \in hits : j <= i].val

\* float(region.get(name, default)) in crop_pdf_regions, in hundredths:
\* raises = "" when it returns, else the exception class (TypeError for None,
\* list or dict)
RegionNumber(region, name, default) ==
  LET v == DictGet(region, name)
  IN IF ~(\E i \in DOMAIN region.s : region.s[i].key = name)
       THEN [raises |-> "", n |-> default]
     ELSE IF v.t \in {"none", "list", "dict"} THEN [raises |-> "TypeError", n |-> 0]
     ELSE IF v.t = "bool" THEN [raises |-> "", n |-> 100 * v.n]
     ELSE [raises |-> IF ParseFloat(v).ok THEN "" ELSE "ValueError",
           n |-> OrDefault(ParseFloat(v), 0)]

\* max(0.0, min(1.0, x)) in hundredths
Clamp01(x) == IF x < 0 THEN 0 ELSE IF x > 100 THEN 100 ELSE x

\* page.set_cropbox(new_rect) unless the rect is empty: raises is the class
\* of the exception that leaves the page loop, "" when the loop goes on
CropToRect(page, new_rect) ==
  IF new_rect.x1 - new_rect.x0 <= 0 \/ new_rect.y1 - new_rect.y0 <= 0
    THEN [raises |-> "", page |-> page]
  ELSE IF ~CropboxFits(page, new_rect) THEN [raises |-> "ValueError", page |-> page]
  ELSE [raises |-> "", page |-> [page EXCEPT !.crop = new_rect]]

\* the keys crop_pdf_regions reads in a region, as the JSON text spells them
RegionKeys ==
  [x |-> <<"x">>, y |-> <<"y">>, width |-> <<"w", "i", "d", "t", "h">>,
   height |-> <<"h", "e", "i", "g", "h", "t">>]

\* the page loop of crop_pdf_regions for page page_no: a parsed JSON object
\* has str keys only, so data.get(page_no) is None; a TypeError or ValueError
\* of the four float() calls is caught and the page left as it is
CropByRegion(page, page_no, data) ==
  LET region == PyOr(DictGet(data, IntToStr(page_no)), None)
      numbers == [name \in {"x", "y", "width", "height"} |->
                    RegionNumber(region, RegionKeys[name],
                                 IF name \in {"width", "height"} THEN 100 ELSE 0)]
  IN IF ~Truthy(region) THEN [raises |-> "", page |-> page]
     ELSE IF region.t # "dict" THEN [raises |-> "AttributeError", page |-> page]
     ELSE IF \E name \in DOMAIN numbers : numbers[name].raises # ""
       THEN [raises |-> "", page |-> page]
     ELSE CropToRect(page,
            [x0 |-> page.width * Clamp01(numbers.x.n),
             y0 |-> page.height * Clamp01(numbers.y.n),
             x1 |-> page.width * (Clamp01(numbers.x.n) + Clamp01(numbers.width.n)),
             y1 |-> page.height * (Clamp01(numbers.y.n) + Clamp01(numbers.height.n))])

\* the end of crop_pdf_regions: the first exception that left the loop, or
\* the saved document
CropRegionsOf(each) ==
  IF \E i \in DOMAIN each : each[i].raises # ""
    THEN Raise(each[CHOOSE i \in DOMAIN each :
                      /\ each[i].raises # ""
                      /\ \A j \in 1..(i - 1) : each[j].raises = ""].raises,
               Lit("crop region rejected"))
    ELSE Return(TmpFile(STR.pdf, Content("pdf", [i \in DOMAIN each |-> each[i].page])),
                NAME.cropped_pdf, MimePdf)

\* crop_pdf_regions(path, regions_json)
crop_pdf_regions(path, regions_json) ==
  LET parsed == IF regions_json # <<>> THEN JsonLoads(regions_json)
                ELSE [ok |-> TRUE, v |-> PyDict(<<>>)]
  IN IF ~parsed.ok THEN RaiseProcessorError(Lit("Invalid crop_regions JSON."))
     ELSE IF parsed.v.t # "dict"
       THEN RaiseProcessorError(Lit("crop_regions JSON must be an object."))
     ELSE IF path.body.kind # "pdf" THEN LibraryError
     ELSE CropRegionsOf([i \in DOMAIN path.body.pages |->
                           CropByRegion(path.body.pages[i], i, parsed.v)])

\* resize_pdf(path, size)
resize_pdf(path, size) ==
  Resave(path, "pdf", STR.pdf, "pdf", NAME.resized_pdf, MimePdf)

\* flatten_pdf(path)
flatten_pdf(path) ==
  Resave(path, "pdf", STR.pdf, "pdf", NAME.flattened_pdf, MimePdf)

\* edit_metadata(path, meta)
edit_metadata(path, meta) ==
  Resave(path, "pdf", STR.pdf, "pdf", NAME.metadata_pdf, MimePdf)

\* fill_forms(path, form_data): the drawn PDFs carry no form fields to update
fill_forms(path, form_data) ==
  Resave(path, "pdf", STR.pdf, "pdf", NAME.filled_pdf, MimePdf)

\* remove_background(path): the extension is that of the saved upload,
\* whose basename is f"{uid}_{filename}"
remove_background(path, env) ==
  LET ext == Lower(Splitext(IntToStr(path.uid) \o <<"_">> \o path.name).ext)
  IN IF ext \notin {STR.png, STR.jpg, STR.jpeg, STR.webp}
       THEN RaiseProcessorError(Lit("Background remover expects an image file."))
     ELSE IF ~env.rembg
       THEN RaiseProcessorError(Lit("Background remover requires the 'rembg' package. Add 'rembg' to requirements.txt and deploy again."))
     ELSE IF path.body.kind # "image" THEN LibraryError
     ELSE Return(TmpFile(STR.png, Content("image", <<>>)),
                 NAME.no_background_png, "image/png")

(***************************************************************************)
(* PDFProcessor.process                                                    *)
(***************************************************************************)

\* one call of a conversion routine, with the value process computed for it
Call(routine, arg) == [routine |-> routine, arg |-> arg]

\* one int(), float() or json.loads() executed on an option value
Parse(fn, option, ok) == [fn |-> fn, option |-> option, ok |-> ok]

\* what process did: the routine's result, the routines it called and the
\* conversions it ran on option values
Done(result, calls, parses) ==
  [raised |-> result.raised, exc |-> result.exc, out |-> result.out,
   calls |-> calls, parses |-> parses]

\* a branch that reads the form's name rotation_angle only and not angle;
\* C15 tells it from the branch of process
ProcessRotate_ReadsFormName(first, options) ==
  LET parsed == ParseInt(PyOr(Get(options, "rotation_angle"), PyStr(<<"0">>)))
  IN Done(rotate_pdf(first, OrDefault(parsed, 0)),
          <<Call("rotate_pdf", PyInt(OrDefault(parsed, 0)))>>,
          <<Parse("int", "angle", parsed.ok)>>)

\* the branch of process for rotate-pdf: a ValueError of int(angle_str)
\* makes the angle 0
ProcessRotate(first, options) ==
  LET parsed == ParseInt(PyOr(PyOr(Get(options, "rotation_angle"), Get(options, "angle")),
                              PyStr(<<"0">>)))
  IN Done(rotate_pdf(first, OrDefault(parsed, 0)),
          <<Call("rotate_pdf", PyInt(OrDefault(parsed, 0)))>>,
          <<Parse("int", "angle", parsed.ok)>>)

\* the branch of process for compress-pdf
ProcessCompress(first, options) ==
  LET raw_level == GetDefault(options, "compression_level", PyStr(<<"2">>))
      level == NormalizeCompressionLevel(raw_level.s)
  IN Done(compress_pdf(first, level), <<Call("compress_pdf", PyStr(level))>>, <<>>)

\* the branch of process for watermark-pdf: the ValueError of float(raw) is
\* not caught
ProcessWatermark(first, options) ==
  LET text == PyOr(Get(options, "watermark_text"), PyStr(STR.confidential))
      raw == PyOr(GetDefault(options, "watermark_opacity", PyStr(<<"0", ".", "1", "5">>)),
                  PyStr(<<"0", ".", "1", "5">>))
      opacity == ParseFloat(raw)
      position == GetDefault(options, "watermark_position", PyStr(STR.center))
  IN IF ~opacity.ok
       THEN Done(ValueError(raw.s), <<>>, <<Parse("float", "watermark_opacity", FALSE)>>)
       ELSE Done(watermark_pdf(first, text, opacity.n, position),
                 <<Call("watermark_pdf", PyFloat(opacity.n))>>,
                 <<Parse("float", "watermark_opacity", TRUE)>>)

\* the branch of process for organize-pdf
ProcessOrganize(first, options) ==
  LET named == PyOr(PyOr(Get(options, "page_order"), Get(options, "order")),
                    PyStr(<<>>))
      deleted_spec == PyOr(PyOr(Get(options, "deleted_pages"), Get(options, "delete_pages")),
                           PyStr(<<>>))
      page_order_spec == IF ~Truthy(named) /\ Truthy(Get(options, "pages"))
                           THEN PyOr(Get(options, "pages"), PyStr(<<>>))
                           ELSE named
  IN Done(organize_pdf(first, page_order_spec.s, deleted_spec.s),
          <<Call("organize_pdf", page_order_spec)>>, <<>>)

\* the branch of process for pdf-to-image: a ValueError of int(dpi_str)
\* makes the dpi 150
ProcessPdfToImage(first, options) ==
  LET fmt == Lower(PyOr(Get(options, "image_format"), PyStr(<<"p", "n", "g">>)).s)
      parsed == ParseInt(PyOr(GetDefault(options, "output_dpi", PyStr(<<"1", "5", "0">>)),
                              PyStr(<<"1", "5", "0">>)))
  IN Done(pdf_to_images(first, fmt, OrDefault(parsed, 150)),
          <<Call("pdf_to_images", PyInt(OrDefault(parsed, 150)))>>,
          <<Parse("int", "output_dpi", parsed.ok)>>)

\* the four margins of the margin crop, in the order the code reads them
MarginKeys == <<"crop_top", "crop_right", "crop_bottom", "crop_left">>

\* the margin crop, margins[i] being float(options.get(key, "0") or "0")
\* for MarginKeys[i]: the first that fails raises ValueError and ends them
CropMargins(first, margins) ==
  LET bad == {i \in DOMAIN margins : ~margins[i].ok}
      parses == [i \in 1..(IF bad = {} THEN Len(margins)
                           ELSE CHOOSE i \in bad : \A j \in bad : i <= j)
                   |-> Parse("float", MarginKeys[i], margins[i].ok)]
  IN IF bad # {}
       THEN Done(Raise("ValueError", Lit("could not convert string to float")),
                 <<>>, parses)
       ELSE Done(crop_pdf(first, margins[1].n, margins[2].n, margins[3].n, margins[4].n),
                 <<Call("crop_pdf", PyFloat(margins[1].n))>>, parses)

\* the branch of process for crop-pdf: a regions JSON has priority
ProcessCrop(first, options) ==
  LET regions_json == Get(options, "crop_regions")
  IN IF Truthy(regions_json)
       THEN Done(crop_pdf_regions(first, regions_json.s),
                 <<Call("crop_pdf_regions", regions_json)>>,
                 <<Parse("json.loads", "crop_regions", JsonLoads(regions_json.s).ok)>>)
       ELSE CropMargins(first,
              [i \in DOMAIN MarginKeys |->
                 ParseFloat(PyOr(GetDefault(options, MarginKeys[i], PyStr(<<"0">>)),
                                 PyStr(<<"0">>)))])

\* the branch of process for fill-forms
ProcessFillForms(first, options) ==
  LET form_data == JsonLoads(GetDefault(options, "form_data_json", PyStr(<<"{", "}">>)).s)
  IN IF ~form_data.ok
       THEN Done(RaiseProcessorError(Lit("Invalid JSON in form_data_json")),
                 <<>>, <<Parse("json.loads", "form_data_json", FALSE)>>)
       ELSE Done(fill_forms(first, form_data.v),
                 <<Call("fill_forms", form_data.v)>>,
                 <<Parse("json.loads", "form_data_json", TRUE)>>)

\* the slugs the if-chain of process compares the normalised slug with, in
\* the order of its branches
DispatchBranches ==
  << SLUG.merge_pdf, SLUG.split_pdf, SLUG.compress_pdf, SLUG.optimize_pdf,
     SLUG.rotate_pdf, SLUG.watermark_pdf, SLUG.number_pdf, SLUG.protect_pdf,
     SLUG.unlock_pdf, SLUG.repair_pdf, SLUG.organize_pdf, SLUG.sign_pdf,
     SLUG.annotate_pdf, SLUG.redact_pdf, SLUG.pdf_to_word, SLUG.word_to_pdf,
     SLUG.pdf_to_image, SLUG.image_to_pdf, SLUG.pdf_to_excel,
     SLUG.excel_to_pdf, SLUG.pdf_to_powerpoint, SLUG.powerpoint_to_pdf,
     SLUG.ocr_pdf, SLUG.extract_text, SLUG.extract_images, SLUG.deskew_pdf,
     SLUG.crop_pdf, SLUG.resize_pdf, SLUG.flatten_pdf, SLUG.metadata_editor,
     SLUG.fill_forms, SLUG.background_remover >>

\* a branch that calls its routine a second time; C23 tells it from a
\* branch of process
Single_CalledTwice(name, result) ==
  Done(result, <<Call(name, None), Call(name, None)>>, <<>>)

\* a routine called with the first input file alone
Single(name, result) == Done(result, <<Call(name, None)>>, <<>>)

\* process(slug, input_files, options): the slug is normalised and an empty
\* input list refused before the if-chain is entered. env is the server the
\* call runs on: whether the Tesseract binary and the rembg package are
\* installed, and the paths that exist on its disk
Process(slug_in, input_files, options, env) ==
  LET slug == Lower(Strip(slug_in))
      first == input_files[1]
      password == PyOr(Get(options, "password"), Get(options, "new_password"))
      signature_path == Get(options, "signature_path")
      highlight_text == Get(options, "highlight_text")
      redact_text == Get(options, "redact_text")
  IN IF input_files = <<>>
       THEN Done(RaiseProcessorError(Lit("No input files provided")), <<>>, <<>>)
     ELSE IF slug = SLUG.merge_pdf THEN Single("merge_pdfs", merge_pdfs(input_files))
     ELSE IF slug = SLUG.split_pdf
       THEN LET pages == PyOr(PyOr(Get(options, "pages"), Get(options, "page_range")),
                              PyStr(<<>>))
            IN Done(split_pdf(first, pages.s), <<Call("split_pdf", pages)>>, <<>>)
     ELSE IF slug = SLUG.compress_pdf THEN ProcessCompress(first, options)
     ELSE IF slug = SLUG.optimize_pdf THEN Single("optimize_pdf", optimize_pdf(first))
     ELSE IF slug = SLUG.rotate_pdf THEN ProcessRotate(first, options)
     ELSE IF slug = SLUG.watermark_pdf THEN ProcessWatermark(first, options)
     ELSE IF slug = SLUG.number_pdf
       THEN LET position == GetDefault(options, "position",
                                       PyStr(<<"b", "o", "t", "t", "o", "m", "-",
                                               "r", "i", "g", "h", "t">>))
            IN Done(number_pdf(first, position), <<Call("number_pdf", position)>>, <<>>)
     ELSE IF slug = SLUG.protect_pdf
       THEN IF ~Truthy(password)
              THEN Done(RaiseProcessorError(Lit("Password is required to protect PDF.")),
                        <<>>, <<>>)
              ELSE Done(protect_pdf(first, password), <<Call("protect_pdf", password)>>, <<>>)
     ELSE IF slug = SLUG.unlock_pdf
       THEN IF ~Truthy(Get(options, "password"))
              THEN Done(RaiseProcessorError(Lit("Password is required to unlock PDF.")),
                        <<>>, <<>>)
              ELSE Done(unlock_pdf(first, Get(options, "password")),
                        <<Call("unlock_pdf", Get(options, "password"))>>, <<>>)
     ELSE IF slug = SLUG.repair_pdf THEN Single("repair_pdf", repair_pdf(first))
     ELSE IF slug = SLUG.organize_pdf THEN ProcessOrganize(first, options)
     ELSE IF slug = SLUG.sign_pdf
       THEN IF ~Truthy(signature_path) \/ signature_path.s \notin env.files
              THEN Done(RaiseProcessorError(Lit("Signature image not provided.")), <<>>, <<>>)
              ELSE Done(sign_pdf(first, signature_path),
                        <<Call("sign_pdf", signature_path)>>, <<>>)
     ELSE IF slug = SLUG.annotate_pdf
       THEN IF ~Truthy(highlight_text)
              THEN Done(RaiseProcessorError(Lit("highlight_text is required for annotate tool.")),
                        <<>>, <<>>)
              ELSE Done(annotate_pdf(first, highlight_text),
                        <<Call("annotate_pdf", highlight_text)>>, <<>>)
     ELSE IF slug = SLUG.redact_pdf
       THEN IF ~Truthy(redact_text)
              THEN Done(RaiseProcessorError(Lit("redact_text is required for redact tool.")),
                        <<>>, <<>>)
              ELSE Done(redact_pdf(first, redact_text),
                        <<Call("redact_pdf", redact_text)>>, <<>>)
     ELSE IF slug = SLUG.pdf_to_word THEN Single("pdf_to_word", pdf_to_word(first))
     ELSE IF slug = SLUG.word_to_pdf THEN Single("word_to_pdf", word_to_pdf(first))
     ELSE IF slug = SLUG.pdf_to_image THEN ProcessPdfToImage(first, options)
     ELSE IF slug = SLUG.image_to_pdf THEN Single("images_to_pdf", images_to_pdf(input_files))
     ELSE IF slug = SLUG.pdf_to_excel THEN Single("pdf_to_excel", pdf_to_excel(first))
     ELSE IF slug = SLUG.excel_to_pdf THEN Single("excel_to_pdf", excel_to_pdf(first))
     ELSE IF slug = SLUG.pdf_to_powerpoint
       THEN Single("pdf_to_powerpoint", pdf_to_powerpoint(first))
     ELSE IF slug = SLUG.powerpoint_to_pdf
       THEN Single("powerpoint_to_pdf", powerpoint_to_pdf(first))
     ELSE IF slug = SLUG.ocr_pdf
       THEN LET lang == PyOr(GetDefault(options, "ocr_lang", PyStr(STR.eng)), PyStr(STR.eng))
            IN Done(ocr_pdf(first, lang, env), <<Call("ocr_pdf", lang)>>, <<>>)
     ELSE IF slug = SLUG.extract_text THEN Single("extract_text", extract_text(first))
     ELSE IF slug = SLUG.extract_images THEN Single("extract_images", extract_images(first))
     ELSE IF slug = SLUG.deskew_pdf THEN Single("deskew_pdf", deskew_pdf(first, env))
     ELSE IF slug = SLUG.crop_pdf THEN ProcessCrop(first, options)
     ELSE IF slug = SLUG.resize_pdf
       THEN LET size == GetDefault(options, "page_size", PyStr(STR.a4))
            IN Done(resize_pdf(first, size), <<Call("resize_pdf", size)>>, <<>>)
     ELSE IF slug = SLUG.flatten_pdf THEN Single("flatten_pdf", flatten_pdf(first))
     ELSE IF slug = SLUG.metadata_editor
       THEN Single("edit_metadata", edit_metadata(first, options))
     ELSE IF slug = SLUG.fill_forms THEN ProcessFillForms(first, options)
     ELSE IF slug = SLUG.background_remover
       THEN Single("remove_background", remove_background(first, env))
     ELSE Done(RaiseProcessorError(Lit("Unknown tool slug: ") \o Fmt(slug)), <<>>, <<>>)

(***************************************************************************)
(* process_tool                                                            *)
(***************************************************************************)

\* the status of redirect(...)
HttpFound == 302

\* the status of send_file(...)
HttpOk == 200

NoFlash == [text |-> <<>>, category |-> ""]

\* flash(text, "error") followed by return redirect(url_for(endpoint, ...))
FlashAndRedirect(text, endpoint) ==
  [status |-> HttpFound, location |-> endpoint,
   flash |-> [text |-> text, category |-> "error"],
   attachment |-> FALSE, download_name |-> <<>>, mimetype |-> "", file |-> NoPath]

\* the MIME type send_file derives from download_name, as it is given no
\* mimetype: mimetypes.guess_type knows .pdf, .zip, .txt and .png by itself
\* and .docx, .xlsx and .pptx only from the mime.types file of the host;
\* an extension it does not know is sent as application/octet-stream
GuessType(name, env) ==
  LET ext == Lower(Splitext(name).ext)
  IN CASE ext = STR.pdf -> MimePdf
       [] ext = STR.docx /\ env.mime_types -> MimeDocx
       [] ext = STR.xlsx /\ env.mime_types -> MimeXlsx
       [] ext = STR.pptx /\ env.mime_types -> MimePptx
       [] ext = STR.zip -> "application/zip"
       [] ext = STR.txt -> "text/plain"
       [] ext = STR.png -> "image/png"
       [] OTHER -> "application/octet-stream"

\* send_file(out_path, as_attachment=True, download_name=download_name)
SendFile(out_path, download_name, env) ==
  [status |-> HttpOk, location |-> "", flash |-> NoFlash,
   attachment |-> TRUE, download_name |-> download_name,
   mimetype |-> GuessType(download_name, env), file |-> out_path]

\* the answer of Flask to an exception that no except clause caught: 500
Unhandled ==
  [status |-> 500, location |-> "", flash |-> NoFlash,
   attachment |-> FALSE, download_name |-> <<>>, mimetype |-> "", file |-> NoPath]

\* a test that looks at the list only and not at the first file's name; C2
\* tells it from the test of process_tool
NoFileChosen_EmptyListOnly(files) == files = <<>>

\* not files or not files[0].filename
NoFileChosen(files) == files = <<>> \/ files[1].filename = <<>>

\* except PDFProcessorError as e
IsProcessorError(exc) == exc.cls = "PDFProcessorError"

\* except Exception as e: every class the routines raise derives from Exception
IsException(exc) ==
  exc.cls \in {"PDFProcessorError", "LibraryError", "ValueError", "TypeError",
               "AttributeError"}

\* a text that shows the exception to the user; C9 tells it from the text
\* of process_tool
FailureText_ShowsException(exc) == Lit("Error: ") \o exc.msg

\* the text flashed for any other Exception
FailureText(exc) == Lit("Something went wrong while processing your file.")

\* the inputs process gets: all for the multi-input tools, else the first
InputsFor(slug, input_paths) ==
  IF slug \in {SLUG.merge_pdf, SLUG.image_to_pdf} THEN input_paths ELSE <<input_paths[1]>>

\* the download name after the keep_filename step
DownloadName(options, files, download_name) ==
  IF Truthy(Get(options, "keep_filename")) /\ files # <<>> /\ files[1].filename # <<>>
    THEN Splitext(SecureFilename(files[1].filename)).base \o Splitext(download_name).ext
    ELSE download_name

NotCalled == [raised |-> FALSE, exc |-> NoExc, out |-> NoOut, calls |-> <<>>, parses |-> <<>>]

\* what one run of the view did: its response, whether an exception left it,
\* whether and with which options process was called, and what process did
Outcome(resp, escaped, reached, options, ret) ==
  [resp |-> resp, escaped |-> escaped, reached |-> reached, options |-> options, ret |-> ret]

\* the try block and what follows it: ret is what pdf.process did; the text
\* flashed for a PDFProcessorError is str(e)
Respond(files, options, ret, env) ==
  IF ret.raised /\ IsProcessorError(ret.exc)
    THEN Outcome(FlashAndRedirect(ret.exc.msg, "tool_page"),
                 FALSE, TRUE, options, ret)
  ELSE IF ret.raised /\ IsException(ret.exc)
    THEN Outcome(FlashAndRedirect(FailureText(ret.exc), "tool_page"),
                 FALSE, TRUE, options, ret)
  ELSE IF ret.raised THEN Outcome(Unhandled, TRUE, TRUE, options, ret)
  ELSE Outcome(SendFile(ret.out.path, DownloadName(options, files, ret.out.name), env),
               FALSE, TRUE, options, ret)

\* process_tool(slug) on a request with these files and this form; uids are
\* the uuid4 prefixes _save_uploads draws. _map_options is called outside
\* the try block, so an exception of it is answered by Flask
HandleProcessTool(slug, files, form, uids, env) ==
  IF ~IsRegistered(slug)
    THEN Outcome(FlashAndRedirect(Lit("Unknown tool."), "index"),
                 FALSE, FALSE, EmptyDict, NotCalled)
  ELSE IF NoFileChosen(files)
    THEN Outcome(FlashAndRedirect(Lit("Please upload at least one file."), "tool_page"),
                 FALSE, FALSE, EmptyDict, NotCalled)
  ELSE IF SaveUploads(files, uids) = <<>>
    THEN Outcome(FlashAndRedirect(Lit("Failed to save uploaded files."), "tool_page"),
                 FALSE, FALSE, EmptyDict, NotCalled)
  ELSE IF MapOptionsError(slug, form) # ""
    THEN Outcome(Unhandled, TRUE, FALSE, EmptyDict, NotCalled)
  ELSE Respond(files, MapOptions(slug, form),
               Process(slug, InputsFor(slug, SaveUploads(files, uids)),
                       MapOptions(slug, form), env),
               env)

(***************************************************************************)
(* The server's disk. A path is the list of its directories and its last   *)
(* component; every component is a text.                                   *)
(***************************************************************************)

\* BASE_DIR, the directory app.py lies in
BaseDir == << <<"s", "r", "v">> >>

\* UPLOAD_FOLDER, which app.py also makes tempfile.tempdir
UploadFolder == BaseDir \o << <<"u", "p", "l", "o", "a", "d", "s">> >>

\* PROCESSED_FOLDER
ProcessedFolder == BaseDir \o << <<"p", "r", "o", "c", "e", "s", "s", "e", "d">> >>

\* a file or directory on the disk: where it lies, what it holds, the
\* client whose request created it (0: it came with the server) and what it
\* was created as
Entry(dir, name, body, by, role) ==
  [dir |-> dir, name |-> name, body |-> body, by |-> by, role |-> role]

\* the disk before any request: app.py in BASE_DIR
ServerFiles ==
  {Entry(BaseDir, <<"a", "p", "p", ".", "p", "y">>, Content("source", <<>>), 0, "server")}

\* the directories of a path as the OS resolves them: .. leaves the
\* directory before it, and the root is its own parent
RECURSIVE Normalize(_, _)
Normalize(dirs, acc) ==
  IF dirs = <<>> THEN acc
  ELSE IF Head(dirs) = <<".", ".">>
    THEN Normalize(Tail(dirs), SubSeq(acc, 1, Len(acc) - 1))
  ELSE Normalize(Tail(dirs), Append(acc, Head(dirs)))

\* os.path.join(folder, p) as open() resolves it; p is a path string read
\* at its separators (whether it starts with /, its directories, its last
\* component). An absolute p discards folder
OsPathJoin(folder, p) ==
  [dir |-> Normalize(IF p.abs THEN p.dirs ELSE folder \o p.dirs, <<>>), name |-> p.name]

\* whether the relative directories lead above the directory they start in
\* (posixpath.normpath gives a path that starts with ..)
RECURSIVE Climbs(_, _)
Climbs(dirs, depth) ==
  IF dirs = <<>> THEN FALSE
  ELSE IF Head(dirs) = <<".", ".">>
    THEN depth = 0 \/ Climbs(Tail(dirs), depth - 1)
  ELSE Climbs(Tail(dirs), depth + 1)

\* where the file of a path of _save_uploads lies:
\* os.path.join(UPLOAD_FOLDER, f"{uid}_{filename}")
Location(path) ==
  [dir |-> UploadFolder, name |-> IntToStr(path.uid) \o <<"_">> \o path.name]

\* the entries of the disk at a place
At(files, place) == {e \in files : e.dir = place.dir /\ e.name = place.name}

\* the disk after entry e is written: a file of the same path is replaced
Write(files, e) == (files \ At(files, e)) \cup {e}

\* the disk after the entries of the list are written one after the other
RECURSIVE WriteAll(_, _)
WriteAll(files, es) ==
  IF es = <<>> THEN files ELSE WriteAll(Write(files, Head(es)), Tail(es))

(***************************************************************************)
(* Tool requests that run side by side                                     *)
(***************************************************************************)

\* the clients: two, each of which sends one tool request, so that one
\* request runs while the files of the other are on the disk
Requests == {1, 2}

\* the name tempfile gives a new file or directory: tmp, characters that
\* make the name new (here the number n) and the suffix
TmpName(n, suffix) == <<"t", "m", "p">> \o IntToStr(n) \o suffix

\* one file or directory a routine creates: a file of _tmp_file(suffix), a
\* directory of mkdtemp(), or a file of the given name inside the directory
\* that is number `inside` of the same list
Temp(role, suffix, name, inside, body) ==
  [role |-> role, suffix |-> suffix, name |-> name, inside |-> inside, body |-> body]

\* what a routine creates on the disk, in the order it creates it, when it
\* is called on `first` and ends as ret: pdf_to_images a directory, an
\* image per page in it and the archive; pdf_to_powerpoint an image per
\* page and the presentation; a routine that raises on opening its input
\* nothing; and none of them removes anything
TempFiles(slug, first, ret) ==
  IF ret.raised THEN <<>>
  ELSE IF slug = SLUG.pdf_to_image
    THEN <<Temp("directory", <<>>, <<>>, 0, Content("none", <<>>))>>
           \o [i \in DOMAIN first.body.pages |->
                 Temp("intermediate", <<>>,
                      <<"p", "a", "g", "e", "_">> \o IntToStr(i) \o <<".", "p", "n", "g">>,
                      1, Content("image", <<>>))]
           \o <<Temp("output", STR.zip, <<>>, 0, ret.out.path.body)>>
  ELSE IF slug = SLUG.pdf_to_powerpoint
    THEN [i \in DOMAIN first.body.pages |->
            Temp("intermediate", <<".", "p", "n", "g">>, <<>>, 0, Content("image", <<>>))]
           \o <<Temp("output", STR.pptx, <<>>, 0, ret.out.path.body)>>
  ELSE <<Temp("output", Splitext(ret.out.path.name).ext, <<>>, 0, ret.out.path.body)>>

\* the entries of the files of the list temps, created by client `by` when the
\* disk holds n entries: number i of the list gets the name that n + i
\* makes new
Placed(temps, n, by) ==
  [i \in DOMAIN temps |->
     IF temps[i].inside = 0
       THEN Entry(UploadFolder, TmpName(n + i, temps[i].suffix), temps[i].body,
                  by, temps[i].role)
       ELSE Entry(UploadFolder \o <<TmpName(n + temps[i].inside, <<>>)>>, temps[i].name,
                  temps[i].body, by, temps[i].role)]

(***************************************************************************)
(* The requests drawn                                                      *)
(***************************************************************************)

\* the most file parts a request carries
MaxFiles == 2

\* the most fields a request's form carries
MaxFormKeys == 2

\* a file part of the upload: the name the client gives and what it holds
File(filename, body) == [filename |-> filename, body |-> body]

\* the file parts drawn: the empty part a browser sends when no file is
\* chosen, a two-page PDF, a PDF no library can read, a name that
\* secure_filename empties, and an image
FileChoices ==
  { File(<<>>, Content("none", <<>>)),
    File(STR.a_pdf, Content("pdf", <<Page("A1"), Page("A2")>>)),
    File(STR.c_pdf, Content("corrupt", <<>>)),
    File(STR.dotdot, Content("pdf", <<Page("D1")>>)),
    File(STR.b_png, Content("image", <<>>)) }

FileLists == UNION {[1..k -> FileChoices] : k \in 0..MaxFiles}

\* two of the values uuid4().hex[:8] takes
Uids == {1, 2}

\* the slugs drawn: every registered one, and three that are not registered
SlugChoices ==
  {TOOLS[i] : i \in DOMAIN TOOLS}
    \cup {STR.unknown_tool_xyz, STR.Merge_PDF, STR.merge_pdf_padded}

\* the form fields drawn for every slug: two that _map_options reads for
\* every tool and one that it reads for none
\* the fields drawn for a slug: the common ones and the fields of the tool's
\* own page, with a misnamed field where the page has one to misname
FormKeysFor(slug) ==
  {"pages", "keep_filename_hidden", "foo"} \cup
    (CASE slug = SLUG.compress_pdf -> {"compression_level"}
       [] slug = SLUG.rotate_pdf -> {"rotation_angle", "angle"}
       [] slug = SLUG.watermark_pdf ->
            {"watermark_text", "watermark_opacity", "watermark_position"}
       [] slug = SLUG.sign_pdf -> {"signature_path"}
       [] slug = SLUG.annotate_pdf -> {"highlight_text"}
       [] slug = SLUG.redact_pdf -> {"redact_text"}
       [] slug = SLUG.protect_pdf -> {"password"}
       [] slug = SLUG.unlock_pdf -> {"password"}
       [] slug = SLUG.organize_pdf ->
            {"page_order", "deleted_pages", "delete_pages", "order"}
       [] slug = SLUG.crop_pdf -> {"crop_regions", "crop_top", "crop_left", "page_order"}
       [] slug = SLUG.resize_pdf -> {"page_size"}
       [] slug = SLUG.ocr_pdf -> {"ocr_lang"}
       [] slug = SLUG.metadata_editor -> {"title"}
       [] slug = SLUG.fill_forms -> {"form_data_json"}
       [] OTHER -> {})

\* the values drawn for a field
FormValues(key) ==
  CASE key = "pages" -> {STR.pages_1_2}
    [] key = "password" -> {STR.secret}
    [] key = "signature_path" -> {STR.sig_png}
    [] key = "highlight_text" -> {STR.draft}
    [] key = "redact_text" -> {STR.secret}
    [] key = "watermark_text" -> {STR.draft}
    [] key = "keep_filename_hidden" -> {STR.one}
    [] key = "foo" -> {STR.bar}
    [] key = "order" -> {STR.order_2_1}
    [] key = "angle" -> {STR.deg90}
    [] key = "compression_level" ->
         {STR.one, STR.two, STR.three, STR.nine, STR.high, STR.level3_padded}
    [] key = "rotation_angle" ->
         {STR.zero, STR.deg45, STR.deg90, STR.deg135, STR.deg180, STR.deg225,
          STR.deg350, STR.minus90, STR.deg450, STR.ninety, STR.empty}
    [] key = "watermark_opacity" -> {STR.half, STR.abc, STR.empty}
    [] key = "watermark_position" -> {STR.top_left}
    [] key = "page_order" -> {STR.order_2_1}
    [] key = "deleted_pages" -> {STR.one}
    [] key = "delete_pages" -> {STR.two}
    [] key = "crop_regions" -> {STR.json_region, STR.json_broken, STR.json_array}
    [] key = "crop_top" -> {STR.ten, STR.abc}
    [] key = "crop_left" -> {STR.ten}
    [] key = "page_size" -> {STR.letter}
    [] key = "ocr_lang" -> {STR.deu}
    [] key = "title" -> {STR.draft}
    [] key = "form_data_json" -> {STR.json_fields, STR.json_broken, STR.json_array}

EmptyForm == [k \in {} |-> <<>>]

\* the forms with exactly the fields keys
RECURSIVE FormsOver(_)
FormsOver(keys) ==
  IF keys = {} THEN {EmptyForm}
  ELSE LET key == CHOOSE k \in keys : TRUE
       IN {[k \in DOMAIN f \cup {key} |-> IF k = key THEN v ELSE f[k]] :
             f \in FormsOver(keys \ {key}), v \in FormValues(key)}

Forms(slug) ==
  UNION {FormsOver(keys) :
           keys \in {K \in SUBSET FormKeysFor(slug) : Cardinality(K) <= MaxFormKeys}}

\* the servers drawn for a slug: Tesseract, rembg and the host's mime.types
\* there or not, and a signature image on the disk or none. The routines of
\* ocr-pdf and deskew-pdf read env.tesseract, that of background-remover
\* reads env.rembg, the branch of sign-pdf reads env.files, the answers of
\* the tools that return an Office file read env.mime_types, and nothing
\* else reads any of them
EnvsFor(slug) ==
  LET s == Lower(Strip(slug))
  IN {e \in {Server(t, r, m, f) : t, r, m \in BOOLEAN, f \in {{}, {STR.sig_png}}} :
        /\ (s \notin {SLUG.ocr_pdf, SLUG.deskew_pdf} => e.tesseract)
        /\ (s # SLUG.background_remover => e.rembg)
        /\ (s \notin {SLUG.pdf_to_word, SLUG.pdf_to_excel, SLUG.pdf_to_powerpoint}
              => e.mime_types)
        /\ (s # SLUG.sign_pdf => e.files = {})}

\* a form handed to process as its options, as a caller other than
\* process_tool does
AsOptions(form) == [k \in DOMAIN form |-> PyStr(form[k])]

\* the upload drawn with every form: the two-page PDF alone
UsualFiles == <<File(STR.a_pdf, Content("pdf", <<Page("A1"), Page("A2")>>))>>

\* the input lists drawn for a direct call of process: none, and the usual
\* upload as _save_uploads stores it
DirectInputs ==
  {<<>>, <<UploadPath(1, SecureFilename(UsualFiles[1].filename), UsualFiles[1].body)>>}

(***************************************************************************)
(* State                                                                   *)
(***************************************************************************)

VARIABLES
  pc,        \* "idle" before the call, "done" after it
  req,       \* the call: its entry point and its inputs
  resp,      \* the HTTP response of process_tool
  escaped,   \* an exception left the entry point
  reached,   \* PDFProcessor.process was called
  options,   \* the options process was called with
  ret,       \* what process did
  disk,      \* the files on the server's disk
  rq,        \* the tool requests in flight: how far each has got
  event      \* what the last request to another route did

vars == <<pc, req, resp, escaped, reached, options, ret, disk, rq, event>>

NoRequest ==
  [via |-> "", slug |-> <<>>, files |-> <<>>, form |-> EmptyForm,
   input_files |-> <<>>, env |-> UsualServer]

NoResponse ==
  [status |-> 0, location |-> "", flash |-> NoFlash,
   attachment |-> FALSE, download_name |-> <<>>, mimetype |-> "", file |-> NoPath]

\* a tool request that has not arrived
NotSent ==
  [pc |-> "new", slug |-> <<>>, files |-> <<>>, uids |-> <<>>, read |-> {},
   made |-> {}, resp |-> NoResponse]

\* no request to another route has been answered
NoEvent ==
  [route |-> "", by |-> 0, status |-> 0, key |-> "", text |-> <<>>,
   opened |-> {}, got |-> {}, token |-> FALSE, sent |-> FALSE, ok |-> FALSE]

Init ==
  /\ pc = "idle"
  /\ req = NoRequest
  /\ resp = NoResponse
  /\ escaped = FALSE
  /\ reached = FALSE
  /\ options = EmptyDict
  /\ ret = NotCalled
  /\ disk = ServerFiles
  /\ rq = [r \in Requests |-> NotSent]
  /\ event = NoEvent

\* the call and what it did become the state
Finish(via, slug, files, form, input_files, env, h) ==
  /\ pc' = "done"
  /\ req' = [via |-> via, slug |-> slug, files |-> files, form |-> form,
             input_files |-> input_files, env |-> env]
  /\ resp' = h.resp
  /\ escaped' = h.escaped
  /\ reached' = h.reached
  /\ options' = h.options
  /\ ret' = h.ret
  /\ UNCHANGED <<disk, rq, event>>

\* POST /tool/<slug>/process
ProcessTool(slug, files, form, uids, env) ==
  /\ pc = "idle"
  /\ Finish("process_tool", slug, files, form, <<>>, env,
            HandleProcessTool(slug, files, form, uids, env))

\* what a direct call of process leaves: no response, and an exception
\* process raises goes to the caller
Direct(opts, r) == Outcome(NoResponse, r.raised, TRUE, opts, r)

\* pdf.process(slug, input_files, options) called by other code
ProcessCall(slug, input_files, opts, env) ==
  /\ pc = "idle"
  /\ Finish("process", slug, <<>>, EmptyForm, input_files, env,
            Direct(opts, Process(slug, input_files, opts, env)))


(***************************************************************************)
(* process_tool in two steps, so that requests interleave at the disk      *)
(***************************************************************************)

\* the tools the clients call side by side
SharedTools == {SLUG.compress_pdf, SLUG.pdf_to_image, SLUG.pdf_to_powerpoint}

\* the upload of client r: every client sends a file named a.pdf, each
\* with a page of its own
UploadOf(r) == <<File(STR.a_pdf, Content("pdf", <<Page(IF r = 1 THEN "P1" ELSE "P2")>>))>>

\* the paths _save_uploads returns, none when process_tool answers before
\* it calls _save_uploads
PathsSaved(slug, files, uids) ==
  IF IsRegistered(slug) /\ ~NoFileChosen(files) THEN SaveUploads(files, uids) ELSE <<>>

\* f.save(full_path) for every path: the file is written under the name
\* drawn, whatever lies there
UploadEntries(paths, by) ==
  [i \in DOMAIN paths |->
     Entry(Location(paths[i]).dir, Location(paths[i]).name, paths[i].body, by, "upload")]

\* the places of the paths of a list
PlacesOf(paths) == {Location(paths[i]) : i \in DOMAIN paths}

\* process_tool of client r up to the return of _save_uploads
SaveStep(r, slug, uids) ==
  /\ pc \in {"idle", "serving"}
  /\ rq[r].pc = "new"
  /\ pc' = "serving"
  /\ disk' = WriteAll(disk, UploadEntries(PathsSaved(slug, UploadOf(r), uids), r))
  /\ rq' = [rq EXCEPT ![r] =
              [@ EXCEPT !.pc = "saved", !.slug = slug, !.files = UploadOf(r),
                        !.uids = uids,
                        !.made = PlacesOf(PathsSaved(slug, UploadOf(r), uids))]]
  /\ UNCHANGED <<req, resp, escaped, reached, options, ret, event>>

\* the body the disk holds now under the path drawn for part i of the
\* upload; a part that was not stored keeps what the client sent
BodyOnDisk(files, uids, held, i) ==
  LET place == Location(UploadPath(uids[i], SecureFilename(files[i].filename), files[i].body))
  IN IF At(held, place) = {} THEN files[i].body
     ELSE (CHOOSE e \in At(held, place) : TRUE).body

\* the upload of a request as the routines find it when they open the
\* paths: each stored part with what the disk holds under its path now
AsOnDisk(files, uids, held) ==
  [i \in DOMAIN files |-> [files[i] EXCEPT !.body = BodyOnDisk(files, uids, held, i)]]

\* the paths process_tool hands to pdf.process
InputPaths(slug, files, uids) ==
  IF PathsSaved(slug, files, uids) = <<>> THEN <<>>
  ELSE InputsFor(slug, PathsSaved(slug, files, uids))

\* the entries the routines of a request open: those under its input paths
InputsRead(slug, files, uids, held) ==
  UNION {At(held, place) : place \in PlacesOf(InputPaths(slug, files, uids))}

\* the end of the second step: the files the routine created are on the
\* disk and the request is answered; h is what process_tool did on the
\* upload as the disk holds it, inputs are the paths process was given
Land(r, h, inputs, held) ==
  LET placed == Placed(IF h.reached THEN TempFiles(rq[r].slug, inputs[1], h.ret) ELSE <<>>,
                       Cardinality(held), r)
  IN /\ disk' = WriteAll(held, placed)
     /\ rq' = [rq EXCEPT ![r] =
                 [@ EXCEPT !.pc = "done",
                           !.read = InputsRead(rq[r].slug, rq[r].files, rq[r].uids, held),
                           !.made = @ \cup {[dir |-> placed[i].dir, name |-> placed[i].name] :
                                              i \in DOMAIN placed},
                           !.resp = h.resp]]

\* process_tool of client r from _map_options to its return
ProcessStep(r) ==
  /\ pc = "serving"
  /\ rq[r].pc = "saved"
  /\ Land(r,
          HandleProcessTool(rq[r].slug, AsOnDisk(rq[r].files, rq[r].uids, disk),
                            EmptyForm, rq[r].uids,
                            UsualServer),
          InputPaths(rq[r].slug, AsOnDisk(rq[r].files, rq[r].uids, disk), rq[r].uids),
          disk)
  /\ UNCHANGED <<pc, req, resp, escaped, reached, options, ret, event>>

(***************************************************************************)
(* The routes that serve and open files by a name the client sends         *)
(***************************************************************************)

\* a path string a client sends, read at its separators: whether it starts
\* with /, its directories and its last component
ClientPath(abs, dirs, name) == [abs |-> abs, dirs |-> dirs, name |-> name]

\* the path strings drawn: the name of every file in the upload folder, the
\* absolute path of every file on the disk, ../app.py and a name no file has
ClientPaths(held) ==
  {ClientPath(FALSE, <<>>, e.name) : e \in {x \in held : x.dir = UploadFolder}}
    \cup {ClientPath(TRUE, e.dir, e.name) : e \in held}
    \cup {ClientPath(FALSE, << <<".", ".">> >>, <<"a", "p", "p", ".", "p", "y">>),
          ClientPath(FALSE, <<>>, <<"n", "o", "n", "e">>)}

\* what a request to a route other than process_tool did: its answer (the
\* status, the key of the JSON object and the text under it), the places it
\* opened and the entries it read there; and for a call of the AI service
\* whether the API token is set, whether a request was sent to the service,
\* and the success flag of safe_call_gemini
Event(route, by, status, key, text, opened, got, ai) ==
  [route |-> route, by |-> by, status |-> status, key |-> key, text |-> text,
   opened |-> opened, got |-> got, token |-> ai.token, sent |-> ai.sent, ok |-> ai.ok]

\* no call of the AI service
NoAi == [token |-> FALSE, sent |-> FALSE, ok |-> FALSE, text |-> <<>>]

\* a route other than process_tool answers; held is the disk it leaves
Answered(e, held) ==
  /\ pc \in {"idle", "serving"}
  /\ event = NoEvent
  /\ pc' = "serving"
  /\ event' = e
  /\ disk' = held
  /\ UNCHANGED <<req, resp, escaped, reached, options, ret, rq>>

\* send_from_directory(UPLOAD_FOLDER, filename): safe_join refuses an
\* absolute name and one that leads above the folder, and a name no file
\* has is answered 404
SendFromDirectory(route, by, p, held) ==
  LET place == OsPathJoin(UploadFolder, p)
      found == {e \in At(held, place) : e.role # "directory"}
  IN IF p.abs \/ Climbs(p.dirs, 0) \/ found = {}
       THEN Event(route, by, 404, "", <<>>, {}, {}, NoAi)
       ELSE Event(route, by, HttpOk, "", <<>>, {place}, found, NoAi)

\* GET /uploads/<path:filename>
UploadedFile(by, p) ==
  Answered(SendFromDirectory("uploaded_file", by, p, disk), disk)

(***************************************************************************)
(* The AI service                                                          *)
(***************************************************************************)

\* what requests.post does: the service answers 200 with the expected
\* JSON, answers 200 with something else, answers another status, or the
\* call raises
Nets == {"ok", "bad_json", "http_error", "exception"}

\* the servers drawn: no API token, or a token and one outcome of the post
AiSetups == {[token |-> FALSE, net |-> "ok"]} \cup {[token |-> TRUE, net |-> n] : n \in Nets}

\* ask_ai(prompt): always returns a str
AskAi(setup) ==
  IF ~setup.token
    THEN [token |-> FALSE, sent |-> FALSE, ok |-> FALSE,
          text |-> Lit("AI Error: HF_TOKEN not configured on server.")]
  ELSE [token |-> TRUE, sent |-> TRUE, ok |-> FALSE,
        text |-> CASE setup.net = "exception" -> Lit("AI Error: ") \o Fmt(<<"e">>)
                   [] setup.net = "http_error" -> Lit("AI Error: ") \o Fmt(<<"r">>)
                   [] setup.net = "bad_json" -> Fmt(<<"r">>)
                   [] setup.net = "ok" -> Fmt(<<"g">>)]

\* safe_call_gemini(prompt): (success, result_or_error); call_gemini_text
\* raises RuntimeError before any request when the key is not set
SafeCallGeminiResult(setup) ==
  IF ~setup.token
    THEN [token |-> FALSE, sent |-> FALSE, ok |-> FALSE,
          text |-> Lit("GEMINI_API_KEY is not set in the environment.")]
  ELSE [token |-> TRUE, sent |-> TRUE, ok |-> setup.net \in {"ok", "bad_json"},
        text |-> IF setup.net \in {"ok", "bad_json"} THEN Fmt(<<"g">>) ELSE Fmt(<<"e">>)]

\* safe_call_gemini called by other code
SafeCallGemini(setup) ==
  Answered(Event("safe_call_gemini", 0, 0, "", SafeCallGeminiResult(setup).text, {}, {},
                 SafeCallGeminiResult(setup)),
           disk)

\* the answer of ai_summarizer on the file part f
AiSummarizerAnswer(by, f, setup) ==
  IF f.filename = <<>>
    THEN Event("ai_summarizer", by, HttpOk, "error", Lit("No file uploaded"), {}, {}, NoAi)
  ELSE IF f.body.kind # "pdf"
    THEN Event("ai_summarizer", by, 500, "", <<>>, {}, {}, NoAi)
  ELSE Event("ai_summarizer", by, HttpOk, "summary", AskAi(setup).text, {}, {}, AskAi(setup))

\* POST /ai/summarizer
AiSummarizer(by, f, setup) == Answered(AiSummarizerAnswer(by, f, setup), disk)

\* the answer of ai_chat_ask to the question and the path of the JSON body;
\* a relative path is resolved against the working directory, BASE_DIR
AiChatAskAnswer(by, question, p, setup, held) ==
  LET place == OsPathJoin(BaseDir, p)
  IN IF question = <<>> \/ p.name = <<>>
       THEN Event("ai_chat_ask", by, 400, "error", Lit("Missing question or file"), {}, {}, NoAi)
     ELSE IF At(held, place) = {}
       THEN Event("ai_chat_ask", by, 404, "error", Lit("File not found on server"), {}, {}, NoAi)
     ELSE IF \E e \in At(held, place) : e.role = "directory"
       THEN Event("ai_chat_ask", by, 500, "", <<>>, {}, {}, NoAi)
     ELSE IF \E e \in At(held, place) : e.body.kind # "pdf"
       THEN Event("ai_chat_ask", by, 500, "", <<>>, {place}, At(held, place), NoAi)
     ELSE Event("ai_chat_ask", by, HttpOk, "answer", AskAi(setup).text,
                {place}, At(held, place), AskAi(setup))

\* POST /ai/chat/ask
AiChatAsk(by, question, p, setup) ==
  Answered(AiChatAskAnswer(by, question, p, setup, disk), disk)

\* the file ai_real_replace writes: PROCESSED_FOLDER/<uuid4 hex>_final.pdf,
\* the number n standing for the uuid
FinalFile(n, body, by) ==
  Entry(ProcessedFolder,
        IntToStr(n) \o <<"_", "f", "i", "n", "a", "l", ".", "p", "d", "f">>,
        body, by, "output")

\* POST /ai/real-replace with the form field filename
AiRealReplace(by, p) ==
  LET place == OsPathJoin(UploadFolder, p)
      found == At(disk, place)
  IN IF p.name = <<>>
       THEN Answered(Event("ai_real_replace", by, 400, "error", Lit("filename missing"),
                           {}, {}, NoAi), disk)
     ELSE IF found = {}
       THEN Answered(Event("ai_real_replace", by, 404, "error",
                           Lit("File not found on server"), {}, {}, NoAi), disk)
     ELSE IF \E e \in found : e.body.kind # "pdf"
       THEN Answered(Event("ai_real_replace", by, 500, "", <<>>, {place}, found, NoAi), disk)
     ELSE Answered(Event("ai_real_replace", by, HttpOk, "", <<>>,
                         {place, [dir |-> ProcessedFolder,
                                  name |-> FinalFile(Cardinality(disk) + 1,
                                                     Content("none", <<>>), by).name]},
                         found, NoAi),
                   Write(disk, FinalFile(Cardinality(disk) + 1,
                                         (CHOOSE e \in found : TRUE).body, by)))
\* the guard of an action that draws its inputs stands before the inputs
Next ==
  \/ pc = "idle" /\ \E slug \in SlugChoices :
       \E files \in FileLists, env \in EnvsFor(slug) :
         \E uids \in [1..Len(files) -> Uids] :
           ProcessTool(slug, files, EmptyForm, uids, env)
  \/ pc = "idle" /\ \E slug \in SlugChoices :
       \E form \in Forms(slug), env \in EnvsFor(slug) :
         ProcessTool(slug, UsualFiles, form, <<1>>, env)
  \/ pc = "idle" /\ \E slug \in SlugChoices :
       \E form \in Forms(slug), env \in EnvsFor(slug), input_files \in DirectInputs :
         ProcessCall(slug, input_files, AsOptions(form), env)
  \/ \E r \in Requests, slug \in SharedTools, uid \in Uids : SaveStep(r, slug, <<uid>>)
  \/ \E r \in Requests : ProcessStep(r)
  \/ event = NoEvent /\ \E by \in Requests, p \in ClientPaths(disk) : UploadedFile(by, p)
  \/ event = NoEvent /\ \E setup \in AiSetups : SafeCallGemini(setup)
  \/ event = NoEvent /\ \E by \in Requests, f \in FileChoices, setup \in AiSetups :
       AiSummarizer(by, f, setup)
  \/ event = NoEvent /\ \E by \in Requests, question \in {<<>>, <<"q">>}, setup \in AiSetups :
       \E p \in ClientPaths(disk) \cup {ClientPath(FALSE, <<>>, <<>>)} :
         AiChatAsk(by, question, p, setup)
  \/ event = NoEvent /\ \E by \in Requests, p \in ClientPaths(disk) \cup {ClientPath(FALSE, <<>>, <<>>)} :
       AiRealReplace(by, p)

Spec == Init /\ [][Next]_vars

(***************************************************************************)
(* Properties                                                              *)
(***************************************************************************)

\* a request to POST /tool/<slug>/process has been answered
Web == pc = "done" /\ req.via = "process_tool"

\* the request was answered with an error
Failed == Web /\ (resp.flash.category = "error" \/ escaped)

\* the status the specification assigns to an error kind
StatusOf(kind) ==
  CASE kind = "bad-input" -> 400
    [] kind = "unsupported-option" -> 400
    [] kind = "missing-dependency" -> 501
    [] kind = "processing-failure" -> 500

\* the tools that take one input file: every registered tool that is not
\* in multi_input_tools
SingleFileTool(slug) ==
  IsRegistered(slug) /\ slug \notin {SLUG.merge_pdf, SLUG.image_to_pdf}

\* the upload carries no file: the list is empty, or the first part has no
\* name, or no part has a name that secure_filename keeps
ZeroFiles(files) ==
  \/ files = <<>>
  \/ files[1].filename = <<>>
  \/ \A i \in DOMAIN files : SecureFilename(files[i].filename) = <<>>

\* the texts process_tool flashes when it turns an upload away
UploadRejections ==
  {Lit("Please upload at least one file."), Lit("Failed to save uploaded files.")}

\* C1: a request that names a tool id that is not registered runs no
\* conversion routine, and process_tool answers it with status 400 and an
\* error, letting no exception escape
C1_UnregisteredIsBadInput ==
  (pc = "done" /\ ~IsRegistered(req.slug)) =>
    /\ ret.calls = <<>>
    /\ (req.via = "process_tool" =>
          /\ resp.status = StatusOf("bad-input")
          /\ resp.flash.category = "error"
          /\ ~escaped)

\* C2: a request to a single-file tool that carries no file is answered with
\* the error that asks for an upload, and process is never called
C2_ZeroFilesRejected ==
  (Web /\ SingleFileTool(req.slug) /\ ZeroFiles(req.files)) =>
    /\ resp.flash.category = "error"
    /\ resp.flash.text \in UploadRejections
    /\ ~resp.attachment
    /\ ~reached
    /\ ret.calls = <<>>

\* a single-file tool was sent an unnamed first part followed by a PDF, and
\* was turned away
C2_Witness ==
  /\ Web
  /\ req.slug = SLUG.compress_pdf
  /\ Len(req.files) = 2
  /\ req.files[1].filename = <<>>
  /\ req.files[2].filename = STR.a_pdf
  /\ resp.flash.text = Lit("Please upload at least one file.")
  /\ ~reached

\* the form fields _map_options reads for a slug
FieldsRead(slug) ==
  {"pages", "password", "watermark_text", "keep_filename_hidden"} \cup
    (CASE slug = SLUG.compress_pdf -> {"compression_level"}
       [] slug = SLUG.rotate_pdf -> {"rotation_angle"}
       [] slug = SLUG.watermark_pdf -> {"watermark_opacity", "watermark_position"}
       [] slug = SLUG.organize_pdf -> {"page_order", "deleted_pages", "delete_pages"}
       [] slug = SLUG.crop_pdf ->
            {"page_order", "deleted_pages", "delete_pages", "crop_regions",
             "crop_top", "crop_right", "crop_bottom", "crop_left"}
       [] slug = SLUG.resize_pdf -> {"page_size"}
       [] slug = SLUG.ocr_pdf -> {"ocr_lang"}
       [] slug = SLUG.metadata_editor ->
            {"title", "author", "subject", "keywords", "creator", "producer"}
       [] slug = SLUG.fill_forms -> {"form_data_json"}
       [] OTHER -> {})

\* the option names _map_options writes for a slug
NamesWritten(slug) ==
  {"pages", "page_range", "password", "new_password", "watermark_text", "keep_filename"} \cup
    (CASE slug = SLUG.compress_pdf -> {"compression_level"}
       [] slug = SLUG.rotate_pdf -> {"angle"}
       [] slug = SLUG.watermark_pdf -> {"watermark_opacity", "watermark_position"}
       [] slug = SLUG.organize_pdf -> {"page_order", "delete_pages"}
       [] slug = SLUG.crop_pdf ->
            {"page_order", "delete_pages", "crop_regions",
             "crop_top", "crop_right", "crop_bottom", "crop_left"}
       [] slug = SLUG.resize_pdf -> {"page_size"}
       [] slug = SLUG.ocr_pdf -> {"ocr_lang"}
       [] slug = SLUG.metadata_editor ->
            {"title", "author", "subject", "keywords", "creator", "producer"}
       [] slug = SLUG.fill_forms -> {"form_data_json"}
       [] OTHER -> {})

\* the form without the field key
Without(form, key) == [k \in DOMAIN form \ {key} |-> form[k]]

\* the answer to the request of this state had its form been `form`
AnswerWith(form) ==
  HandleProcessTool(req.slug, req.files, form, [i \in DOMAIN req.files |-> 1], req.env)

\* C3: a form field that _map_options does not read for the slug changes
\* nothing: the response, the options and what process does are those of the
\* request without the field, and unless the tool writes an option of that
\* name the field's name is no key of the options
C3_UnreadFieldIgnored ==
  Web =>
    \A key \in DOMAIN req.form \ FieldsRead(req.slug) :
      /\ (key \notin NamesWritten(req.slug) => key \notin DOMAIN options)
      /\ LET without == AnswerWith(Without(req.form, key))
         IN /\ resp = without.resp
            /\ options = without.options
            /\ ret = without.ret
            /\ reached = without.reached
            /\ escaped = without.escaped

\* compress-pdf was sent foo=bar next to a level and answered with the
\* compressed file
C3_Witness ==
  /\ Web
  /\ req.slug = SLUG.compress_pdf
  /\ DOMAIN req.form = {"foo", "compression_level"}
  /\ req.form["foo"] = STR.bar
  /\ req.form["compression_level"] = STR.three
  /\ resp.status = HttpOk
  /\ resp.attachment
  /\ DOMAIN options = {"compression_level"}

\* process called the routine as its first and only one
Ran(routine) == pc = "done" /\ ret.calls # <<>> /\ ret.calls[1].routine = routine

\* the pages of the file process returned
OutputPages == ret.out.path.body.pages

\* the allowed angle nearest to angle, the larger one of two equally near
NearestTiesUp(angle) ==
  CHOOSE r \in {0, 90, 180, 270} :
    \A c \in {0, 90, 180, 270} :
      \/ Distance(r, angle) < Distance(c, angle)
      \/ (Distance(r, angle) = Distance(c, angle) /\ r >= c)

\* C4: the angle rotate_pdf applies to the pages is the allowed angle
\* nearest to the angle it was given, reduced modulo 360, and of two equally
\* near ones the larger: 45 gives 90, 135 gives 180, 225 gives 270
C4_NearestTiesUp ==
  (Ran("rotate_pdf") /\ ~ret.raised) =>
    \A i \in DOMAIN OutputPages :
      OutputPages[i].rotate = NearestTiesUp(ret.calls[1].arg.n % 360)

\* the rotate form carries an angle that is no number
NonNumericAngle ==
  /\ req.slug = SLUG.rotate_pdf
  /\ "rotation_angle" \in DOMAIN req.form
  /\ Strip(req.form["rotation_angle"]) # <<>>
  /\ ~ParseInt(PyStr(req.form["rotation_angle"])).ok

\* C5: a rotate request whose angle is no number is answered with an error:
\* no routine runs and no file is sent
C5_NonNumericAngleRejected ==
  (Web /\ NonNumericAngle) =>
    /\ resp.flash.category = "error"
    /\ ret.calls = <<>>
    /\ ~resp.attachment

\* the levels the compress page offers
DeclaredLevels == {STR.one, STR.two, STR.three}

\* what process does for compress-pdf on the usual upload with the level
CompressAt(level) ==
  Process(SLUG.compress_pdf,
          <<UploadPath(1, SecureFilename(UsualFiles[1].filename), UsualFiles[1].body)>>,
          Put(EmptyDict, "compression_level", PyStr(level)),
          NoRequest.env)

\* the level of this state's compression is a declared one
DeclaredLevelRan ==
  /\ Ran("compress_pdf")
  /\ "compression_level" \in DOMAIN options
  /\ options["compression_level"].s \in DeclaredLevels

\* C6: the tier compress_pdf is called with and the parameters it saves with
\* are fixed by the level alone, whatever the rest of the request, and no
\* two of the levels "1", "2", "3" share a tier or their save parameters
C6_LevelsDistinctTiers ==
  DeclaredLevelRan =>
    LET level == options["compression_level"].s
    IN /\ ret.calls[1].arg = CompressAt(level).calls[1].arg
       /\ (~ret.raised => ret.out.path.body.save = CompressAt(level).out.path.body.save)
       /\ \A other \in DeclaredLevels \ {level} :
            /\ CompressAt(other).calls[1].arg # ret.calls[1].arg
            /\ (~ret.raised =>
                  CompressAt(other).out.path.body.save # ret.out.path.body.save)

\* level "3" was sent to compress-pdf and the file was saved at the low tier
C6_Witness ==
  /\ Web
  /\ DeclaredLevelRan
  /\ options["compression_level"] = PyStr(STR.three)
  /\ ret.calls[1].arg = PyStr(STR.low)
  /\ ~ret.raised
  /\ ret.out.path.body.save.garbage = 4
  /\ ret.out.path.body.save.image_quality = 60

\* the compress form carries a level that _normalize_compression_level does
\* not name and the page does not offer
UndeclaredLevel ==
  /\ req.slug = SLUG.compress_pdf
  /\ "compression_level" \in DOMAIN req.form
  /\ Lower(Strip(req.form["compression_level"])) \notin
       DeclaredLevels \cup {STR.high, STR.hq, STR.low, STR.smallest, STR.medium}

\* C7: a compress request whose level is not a declared one is answered
\* with an error and compress_pdf does not run
C7_UndeclaredLevelRejected ==
  (Web /\ UndeclaredLevel) =>
    /\ resp.flash.category = "error"
    /\ ~Ran("compress_pdf")
    /\ ~resp.attachment

\* the routine gave up because Tesseract or rembg is not installed
DependencyMissing ==
  /\ reached
  /\ ret.raised
  /\ ret.exc.cls = "PDFProcessorError"
  /\ \/ (req.slug \in {SLUG.ocr_pdf, SLUG.deskew_pdf} /\ ~req.env.tesseract)
     \/ (req.slug = SLUG.background_remover /\ ~req.env.rembg
           /\ ret.exc.msg # Lit("Background remover expects an image file."))

\* C8: a failed request is answered with the status of its error kind: 400
\* when it is turned away before process is called, 501 when a dependency
\* is missing, 500 when the routine raised anything but a PDFProcessorError,
\* and never a status other than these
C8_StatusFollowsKind ==
  Failed =>
    /\ resp.status \in {StatusOf("bad-input"), StatusOf("unsupported-option"),
                        StatusOf("missing-dependency"), StatusOf("processing-failure")}
    /\ (~reached => resp.status = StatusOf("bad-input"))
    /\ (DependencyMissing => resp.status = StatusOf("missing-dependency"))
    /\ ((ret.raised /\ ret.exc.cls # "PDFProcessorError") =>
          resp.status = StatusOf("processing-failure"))

\* C9: when the routine raises, process_tool answers with an error and the
\* exception does not leave it; when the exception is no PDFProcessorError
\* the text shown is the same for every exception and holds no part of the
\* exception's message
C9_RoutineExceptionsAnswered ==
  (Web /\ ret.raised) =>
    /\ ~escaped
    /\ resp.flash.category = "error"
    /\ resp.flash.text # <<>>
    /\ ~resp.attachment
    /\ (ret.exc.cls # "PDFProcessorError" =>
          /\ resp.flash.text = Lit("Something went wrong while processing your file.")
          /\ \A i \in DOMAIN resp.flash.text, j \in DOMAIN ret.exc.msg :
               resp.flash.text[i] # ret.exc.msg[j])

\* float() raised ValueError on the opacity sent to watermark-pdf, its
\* message names the value, and the user was shown the fixed text
C9_Witness ==
  /\ Web
  /\ req.slug = SLUG.watermark_pdf
  /\ ret.raised
  /\ ret.exc.cls = "ValueError"
  /\ \E j \in DOMAIN ret.exc.msg : ret.exc.msg[j] = Fmt(STR.abc)[1]
  /\ resp.flash.text = Lit("Something went wrong while processing your file.")
  /\ ~escaped

\* C10: the options process_tool hands to process are already typed:
\* process runs no int(), float() or json.loads() on an option, so none
\* can fail there
C10_OptionsAlreadyCoerced ==
  (Web /\ reached) => ret.parses = <<>>

\* the request passed the checks of process_tool that precede _map_options:
\* the tool is registered and a file was saved
Accepted == Web /\ IsRegistered(req.slug) /\ ~ZeroFiles(req.files)

\* o is an option map of the tool: a dict from the option names the tool
\* writes to strings, ints and True
IsOptionMap(slug, o) ==
  /\ DOMAIN o \subseteq NamesWritten(slug)
  /\ \A k \in DOMAIN o :
       \/ o[k].t = "str"
       \/ o[k].t = "int" /\ o[k].n \in Int
       \/ o[k] = True

\* C11: _map_options raises on no form of strings: on every request that
\* gets as far as _map_options, whatever its slug and whichever fields are
\* absent, empty or no number, it returns an option map and pdf.process is
\* called with that map
C11_MapOptionsNeverRaises ==
  Accepted =>
    /\ MapOptionsError(req.slug, req.form) = ""
    /\ reached
    /\ options = MapOptions(req.slug, req.form)
    /\ IsOptionMap(req.slug, options)

\* rotate-pdf was sent rotation_angle=ninety and process was called with
\* angle 0
C11_Witness ==
  /\ Accepted
  /\ req.slug = SLUG.rotate_pdf
  /\ "rotation_angle" \in DOMAIN req.form
  /\ req.form["rotation_angle"] = STR.ninety
  /\ reached
  /\ options["angle"] = PyInt(0)

\* the file parts of an upload that _save_uploads stores
StoredParts(files) ==
  {i \in DOMAIN files : SecureFilename(files[i].filename) # <<>>}

\* the tools process_tool hands every uploaded file to
MultiFileTool(slug) == slug \in {SLUG.merge_pdf, SLUG.image_to_pdf}

\* C12: a multi-file tool that is sent exactly one file is answered with an
\* error and produces no output
C12_ArityMismatchRejected ==
  (Accepted /\ MultiFileTool(req.slug) /\ Cardinality(StoredParts(req.files)) = 1) =>
    /\ resp.flash.category = "error"
    /\ ~resp.attachment
    /\ ret.out = NoOut

\* the defaults of a tool's options, as the claim lists them
Defaults(slug) ==
  CASE slug = SLUG.compress_pdf -> [compression_level |-> PyStr(<<"2">>)]
    [] slug = SLUG.rotate_pdf -> [angle |-> PyInt(0)]
    [] slug = SLUG.watermark_pdf ->
         [watermark_text |-> PyStr(STR.confidential),
          watermark_opacity |-> PyStr(<<"0", ".", "1", "5">>),
          watermark_position |-> PyStr(STR.center)]
    [] slug = SLUG.crop_pdf ->
         [crop_top |-> PyStr(<<"0">>), crop_right |-> PyStr(<<"0">>),
          crop_bottom |-> PyStr(<<"0">>), crop_left |-> PyStr(<<"0">>)]
    [] slug = SLUG.resize_pdf -> [page_size |-> PyStr(<<"A", "4">>)]
    [] slug = SLUG.ocr_pdf -> [ocr_lang |-> PyStr(<<"e", "n", "g">>)]
    [] slug = SLUG.fill_forms -> [form_data_json |-> PyStr(<<"{", "}">>)]
    [] OTHER -> EmptyDict

\* one file and an empty form were sent and the request got to pdf.process
DefaultRequest == Accepted /\ req.form = EmptyForm /\ Len(req.files) = 1 /\ reached

\* what pdf.process does on the request's upload when it is given no option
\* at all
WithoutOptions ==
  Process(req.slug, InputsFor(req.slug, SaveUploads(req.files, <<1>>)), EmptyDict, req.env)

RECURSIVE PagesUploaded(_, _)
PagesUploaded(files, i) ==
  IF i > Len(files) THEN <<>>
  ELSE files[i].body.pages \o PagesUploaded(files, i + 1)

\* merge-pdf was sent PDF files only and answered with a file
Merged ==
  /\ Web
  /\ req.slug = SLUG.merge_pdf
  /\ \A i \in DOMAIN req.files : req.files[i].body.kind = "pdf"
  /\ resp.status = HttpOk
  /\ resp.attachment

\* C14: the pages of the file merge-pdf answers with are the pages of the
\* uploaded files F1..Fn, in upload order
C14_MergeConcatenates ==
  Merged =>
    /\ resp.file.body.kind = "pdf"
    /\ resp.file.body.pages = PagesUploaded(req.files, 1)
    /\ resp.download_name = NAME.merged_pdf

\* rotate-pdf was sent a file and a rotation_angle that int() reads
RotateRequest ==
  /\ Accepted
  /\ req.slug = SLUG.rotate_pdf
  /\ "rotation_angle" \in DOMAIN req.form
  /\ ParseInt(PyStr(req.form["rotation_angle"])).ok

\* int(rotation_angle) of the request
AngleSent == ParseInt(PyStr(req.form["rotation_angle"])).n

\* C15: rotate-pdf turns every page by the normalized value of the form
\* field rotation_angle: the value is stored as the option angle, process
\* hands that same value to rotate_pdf, 0 included, and every page of the
\* output is the input page turned by the normalized angle
C15_AngleReachesPages ==
  RotateRequest =>
    /\ options["angle"] = PyInt(AngleSent)
    /\ ret.calls = <<Call("rotate_pdf", PyInt(AngleSent))>>
    /\ resp.status = HttpOk
    /\ Len(resp.file.body.pages) = Len(req.files[1].body.pages)
    /\ \A i \in DOMAIN resp.file.body.pages :
         resp.file.body.pages[i] =
           [req.files[1].body.pages[i] EXCEPT
              !.rotate = (@ + NormalizeAngle(AngleSent)) % 360]

\* rotate-pdf was sent rotation_angle=90 and both pages of the answer are
\* turned by 90 degrees
C15_Witness ==
  /\ RotateRequest
  /\ req.form["rotation_angle"] = STR.deg90
  /\ resp.status = HttpOk
  /\ Len(resp.file.body.pages) = 2
  /\ \A i \in DOMAIN resp.file.body.pages : resp.file.body.pages[i].rotate = 90

\* the tool requests that have stored their upload
Arrived == {r \in Requests : rq[r].pc # "new"}

\* C16: the names generated for the uploads, the outputs and the
\* intermediate files of requests to the same tool that run side by side
\* are pairwise different, no file a request created is replaced by
\* another request, and a request reads the files of no other request
C16_NamesUniqueAcrossBatch ==
  \A r1, r2 \in Arrived :
    (r1 # r2 /\ rq[r1].slug = rq[r2].slug) =>
      /\ rq[r1].made \cap rq[r2].made = {}
      /\ \A place \in rq[r1].made : \A e \in At(disk, place) : e.by = r1
      /\ \A e \in rq[r1].read : e.by = r1

\* a request to a route that reads files has been answered
FileRoutes == {"uploaded_file", "ai_chat_ask", "ai_real_replace"}

\* C17: a file that a request of one client uploaded or generated is read
\* by no request of another client, whatever the route
C17_FilesPrivate ==
  event.route \in FileRoutes =>
    \A e \in event.got : e.role \in {"upload", "output", "intermediate"} => e.by = event.by

\* whether a place lies in the upload folder or the processed folder
InFolders(place) ==
  \E folder \in {UploadFolder, ProcessedFolder} :
    /\ Len(place.dir) >= Len(folder)
    /\ SubSeq(place.dir, 1, Len(folder)) = folder

\* C18: every path a route opens lies inside the upload folder or the
\* processed folder, whatever file name the client sends
C18_PathsInsideFolders ==
  event.route \in FileRoutes => \A place \in event.opened : InFolders(place)

\* the files and directories client r's tool request left on the disk that
\* are not its uploads
LeftBy(r) == {e \in disk : e.by = r /\ e.role # "upload" /\ e.dir # ProcessedFolder}

\* C19: when the routine of a tool request has returned, no intermediate
\* file or directory it created is on the disk: the one file it leaves is
\* the output it returns, and it leaves none when it fails
C19_TemporariesRemoved ==
  \A r \in Requests :
    rq[r].pc = "done" =>
      /\ \A e \in LeftBy(r) : e.role = "output"
      /\ Cardinality(LeftBy(r)) = (IF rq[r].resp.attachment THEN 1 ELSE 0)

\* the calls of the AI service
AiRoutes == {"ai_summarizer", "ai_chat_ask", "safe_call_gemini"}

\* the answer tells the caller that the call failed: an HTTP error status,
\* an error member, or the success flag False
ReportsFailure ==
  \/ event.status >= 400
  \/ event.key = "error"
  \/ event.route = "safe_call_gemini" /\ ~event.ok

\* C20: without the API token a call of the AI service sends no request
\* and its caller is told of a failure: the endpoint answers with an error,
\* not with a success response
C20_MissingTokenReported ==
  (event.route \in AiRoutes /\ ~event.token) =>
    /\ ~event.sent
    /\ ReportsFailure
\* process returned a result to process_tool
Succeeded == Web /\ reached /\ ~ret.raised

\* C21: every successful processing response has status 200, is an
\* attachment, and carries as its MIME type exactly the content type the
\* conversion routine returned with the result
C21_ExactContentType ==
  Succeeded =>
    /\ resp.status = HttpOk
    /\ resp.attachment
    /\ resp.mimetype = ret.out.mime

\* the slug is no registered one, and differs from a registered one only in
\* letter case or in whitespace around it
NearRegistered(slug) == ~IsRegistered(slug) /\ IsRegistered(Lower(Strip(slug)))

\* process left its if-chain at the end: raise PDFProcessorError("Unknown
\* tool slug: ...")
UnknownSlugRaised ==
  /\ ret.raised
  /\ ret.exc.cls = "PDFProcessorError"
  /\ ret.exc.msg # <<>>
  /\ ret.exc.msg[1] = Lit("Unknown tool slug: ")[1]

\* C22: a slug that differs from a registered one only in letter case or
\* surrounding whitespace is unregistered at every lookup: process_tool
\* answers "Unknown tool." without calling process, process given an input
\* file raises its unknown-slug error, and no conversion routine runs
C22_SlugsMatchedExactly ==
  (pc = "done" /\ NearRegistered(req.slug)) =>
    /\ ret.calls = <<>>
    /\ (req.via = "process_tool" =>
          ~reached /\ resp.flash.text = Lit("Unknown tool."))
    /\ ((req.via = "process" /\ req.input_files # <<>>) => UnknownSlugRaised)

\* the branches of process whose condition the request's slug meets, once
\* process has normalised it
BranchesMatched ==
  {i \in DOMAIN DispatchBranches : DispatchBranches[i] = Lower(Strip(req.slug))}

\* the input list process was given is not empty
InputGiven == req.via = "process_tool" \/ req.input_files # <<>>

\* the texts of the errors a branch of process raises itself, before it
\* calls its routine
BranchRefusals ==
  {Lit("Password is required to protect PDF."),
   Lit("Password is required to unlock PDF."),
   Lit("Signature image not provided."),
   Lit("highlight_text is required for annotate tool."),
   Lit("redact_text is required for redact tool."),
   Lit("Invalid JSON in form_data_json")}

\* the branch raised before the call of its routine: a required option is
\* absent, or float() or json.loads() failed on an option value
RefusedBeforeCall ==
  /\ ret.raised
  /\ ret.calls = <<>>
  /\ \/ ret.exc.cls = "PDFProcessorError" /\ ret.exc.msg \in BranchRefusals
     \/ /\ ret.exc.cls = "ValueError"
        /\ ret.parses # <<>>
        /\ ret.parses[Len(ret.parses)].fn = "float"
        /\ ~ret.parses[Len(ret.parses)].ok

C24_RegistryMatchesDispatch ==
  /\ {TOOLS[i] : i \in DOMAIN TOOLS} = {DispatchBranches[i] : i \in DOMAIN DispatchBranches}
  /\ (pc = "done" /\ reached /\ InputGiven) =>
       /\ (IsRegistered(req.slug) => BranchesMatched # {} /\ ~UnknownSlugRaised)
       /\ (~UnknownSlugRaised => IsRegistered(Lower(Strip(req.slug))))
       /\ (UnknownSlugRaised <=> BranchesMatched = {})

\* background-remover, the last entry of TOOLS, was sent an image and the
\* last branch of process called remove_background
C24_Witness ==
  /\ Web
  /\ reached
  /\ req.slug = TOOLS[Len(TOOLS)]
  /\ req.slug = SLUG.background_remover
  /\ BranchesMatched = {Len(DispatchBranches)}
  /\ ret.calls = <<Call("remove_background", None)>>
  /\ ~ret.raised
  /\ resp.status = HttpOk


\* the request reaches a conversion routine
ReachesRoutine(slug, files, form, uids, env) ==
  HandleProcessTool(slug, files, form, uids, env).ret.calls # <<>>

\* some request drawn for the slug reaches a conversion routine: the usual
\* upload with one of the slug's forms, or one of the uploads with no form
Usable(slug) ==
  \/ \E form \in Forms(slug), env \in EnvsFor(slug) :
       ReachesRoutine(slug, UsualFiles, form, <<1>>, env)
  \/ \E files \in FileLists, env \in EnvsFor(slug) :
       \E uids \in [1..Len(files) -> Uids] :
         ReachesRoutine(slug, files, EmptyForm, uids, env)

\* C26: every registered tool can be used through POST /tool/<slug>/process:
\* for the slug of every answered request that is registered, some upload
\* and form make the request reach the tool's conversion routine
C26_EveryToolUsable ==
  (Web /\ IsRegistered(req.slug)) => Usable(req.slug)


(***************************************************************************)
(* The page routines on inputs of their own: organize-pdf on a three-page  *)
(* upload, rotate_pdf on every angle of a range, _page_ranges_to_list on    *)
(* every short specification, crop-pdf on every region of a grid           *)
(***************************************************************************)

\* the upload drawn for organize-pdf and crop-pdf: a PDF of three pages
ThreePages == <<File(STR.a_pdf, Content("pdf", <<Page("A1"), Page("A2"), Page("A3")>>))>>

\* the path _save_uploads gives the three-page upload
ThreePagePath == UploadPath(1, SecureFilename(ThreePages[1].filename), ThreePages[1].body)

\* the values drawn for the three fields of the organize-pdf page
OrganizeFields ==
  [page_order |-> {<<"1", ",", "3", ",", "2">>, <<"3", ",", "1">>, <<"2", "-", "3">>,
                   <<"3", ",", "3", ",", "1">>},
   deleted_pages |-> {<<"1">>, <<"2", "-", "3">>, <<" ">>},
   delete_pages |-> {<<"2">>, <<"3">>}]

\* the forms of the organize-pdf page: any of the three fields, each with
\* one of its values
OrganizeForms ==
  UNION {{form \in [K -> UNION {OrganizeFields[k] : k \in K}] :
            \A k \in K : form[k] \in OrganizeFields[k]} :
           K \in SUBSET DOMAIN OrganizeFields}

\* the largest angle drawn, and the angles: a turn below zero and two above
MaxAngle == 720
Angles == (0 - 360)..MaxAngle

\* the longest specification drawn, the characters it is made of and the
\* largest page count
MaxSpecLen == 4
SpecChars == {"1", "2", "3", "-", ",", " ", "a"}
MaxPages == 3
PageSpecs == UNION {[1..k -> SpecChars] : k \in 0..MaxSpecLen}

\* the numbers drawn for x, y, width and height of a region, in hundredths
RegionValues == {0 - 20, 0, 25, 50, 80, 100, 150}

\* a number of hundredths as JSON text: 25 is 0.25, -20 is -0.20
JsonDecimal(h) ==
  LET a == IF h < 0 THEN 0 - h ELSE h
  IN (IF h < 0 THEN <<"-">> ELSE <<>>)
       \o IntToStr(a \div 100) \o <<".">>
       \o <<Digits[((a \div 10) % 10) + 1], Digits[(a % 10) + 1]>>

\* "name":value
JsonMember(name, h) == <<"\"">> \o name \o <<"\"", ":">> \o JsonDecimal(h)

\* the crop_regions text the preview sends for one region on page page_no:
\* {"1":{"x":..,"y":..,"width":..,"height":..}}
RegionJson(page_no, x, y, w, h) ==
  <<"{", "\"">> \o IntToStr(page_no) \o <<"\"", ":", "{">>
    \o JsonMember(RegionKeys.x, x) \o <<",">> \o JsonMember(RegionKeys.y, y) \o <<",">>
    \o JsonMember(RegionKeys.width, w) \o <<",">> \o JsonMember(RegionKeys.height, h)
    \o <<"}", "}">>

\* one field of a form
OneField(key, value) == [k \in {key} |-> value]

\* rotate_pdf(path, angle) called on its own
RotateCall(path, angle) ==
  /\ pc = "idle"
  /\ Finish("rotate_pdf", <<>>, <<>>, EmptyForm, <<path>>, UsualServer,
            Direct(EmptyDict,
                   Done(rotate_pdf(path, angle), <<Call("rotate_pdf", PyInt(angle))>>, <<>>)))

\* what a call of _page_ranges_to_list leaves: the list it returned, or the
\* ValueError that left it
Listed(spec, total_pages, r) ==
  [raised |-> ~r.ok, exc |-> IF r.ok THEN NoExc ELSE ValueError(spec).exc, out |-> NoOut,
   calls |-> <<Call("_page_ranges_to_list", PyStr(spec))>>, parses |-> <<>>,
   total_pages |-> total_pages, pages |-> r.pages]

\* _page_ranges_to_list(spec, total_pages) called on its own
PageRangesCall(spec, total_pages) ==
  /\ pc = "idle"
  /\ Finish("_page_ranges_to_list", <<>>, <<>>, OneField("spec", spec), <<>>, UsualServer,
            Direct(EmptyDict, Listed(spec, total_pages, PageRangesToList(spec, total_pages))))

NextRoutines ==
  \/ pc = "idle" /\ \E form \in OrganizeForms :
       ProcessTool(SLUG.organize_pdf, ThreePages, form, <<1>>, UsualServer)
  \/ pc = "idle" /\ \E angle \in Angles : RotateCall(ThreePagePath, angle)
  \/ pc = "idle" /\ \E spec \in PageSpecs, total_pages \in 0..MaxPages :
       PageRangesCall(spec, total_pages)
  \/ pc = "idle" /\ \E x, y, w, h \in RegionValues :
       ProcessTool(SLUG.crop_pdf, ThreePages, OneField("crop_regions", RegionJson(1, x, y, w, h)),
                   <<1>>, UsualServer)

\* the routines called from the state after construction
RoutineSpec == Init /\ [][NextRoutines]_vars

(***************************************************************************)
(* Claims about the page routines                                          *)
(***************************************************************************)

\* a request to organize-pdf has been answered and organize_pdf has run
Organized == Web /\ req.slug = SLUG.organize_pdf /\ Ran("organize_pdf")

\* whether the form carries the field with a value that is not blank
Supplied(form, key) == key \in DOMAIN form /\ Strip(form[key]) # <<>>

\* the page numbers a specification of single numbers lists, in its order
ListedNumbers(spec) ==
  LET pieces == Split(spec, ",")
  IN [i \in DOMAIN pieces |-> OrDefault(ParseInt(PyStr(pieces[i])), 0)]

\* the specification lists single page numbers of the document, none twice
ListsDistinctPages(spec, total) ==
  /\ IndexOf(spec, "-") = 0
  /\ \A i \in DOMAIN ListedNumbers(spec) :
       /\ ListedNumbers(spec)[i] \in 1..total
       /\ \A j \in DOMAIN ListedNumbers(spec) :
            ListedNumbers(spec)[i] = ListedNumbers(spec)[j] => i = j

\* the ids of the pages of a list
PageIds(pages) == [i \in DOMAIN pages |-> pages[i].id]

\* C25: when organize-pdf gets an order specification that lists single
\* pages and no delete specification, the output holds the listed pages in
\* the order the specification lists them: "1,3,2" on three pages gives the
\* source pages 1, 3, 2
C25_OrderFollowsSpec ==
  (/\ Organized /\ ~ret.raised
   /\ Supplied(req.form, "page_order")
   /\ ~Supplied(req.form, "deleted_pages") /\ ~Supplied(req.form, "delete_pages")
   /\ ListsDistinctPages(req.form.page_order, Len(req.files[1].body.pages)))
    => PageIds(OutputPages)
         = [i \in DOMAIN ListedNumbers(req.form.page_order) |->
              req.files[1].body.pages[ListedNumbers(req.form.page_order)[i]].id]

\* the rotation between two angles measured around the circle
CircularDistance(a, b) ==
  IF (a - b) % 360 <= 180 THEN (a - b) % 360 ELSE 360 - ((a - b) % 360)

\* the angle rotate_pdf was called with
RequestedAngle == ret.calls[1].arg.n

\* C27: for every angle, the angle rotate_pdf applies to the pages is within
\* 45 degrees of the requested one measured around the circle (350 is
\* applied as 0), and a multiple of 90 is applied unchanged modulo 360
C27_WithinEighthTurn ==
  (Ran("rotate_pdf") /\ ~ret.raised) =>
    \A i \in DOMAIN OutputPages :
      /\ CircularDistance(OutputPages[i].rotate, RequestedAngle) <= 45
      /\ (RequestedAngle % 90 = 0 => OutputPages[i].rotate = RequestedAngle % 360)

\* a call of _page_ranges_to_list has ended
ListedPages == pc = "done" /\ req.via = "_page_ranges_to_list"

\* the specification is one open-ended range k-, k a number
OpenEnded(spec) ==
  /\ Len(spec) >= 2 /\ spec[Len(spec)] = "-"
  /\ AllDigits(SubSeq(spec, 1, Len(spec) - 1))

\* the zero-based indices of the pages k .. total_pages, in order
FromPage(k, total_pages) ==
  [i \in 1..(IF k = 0 THEN total_pages
             ELSE IF k > total_pages THEN 0 ELSE total_pages - k + 1) |->
     IF k = 0 THEN i - 1 ELSE k + i - 2]

\* C28: for every specification and page count, _page_ranges_to_list
\* returns indices of [0, total_pages) only and none twice, every page for
\* the empty specification and the pages k to the last for "k-", and it
\* never raises
C28_IndicesInRange ==
  ListedPages =>
    /\ ~ret.raised
    /\ \A i \in DOMAIN ret.pages :
         /\ 0 <= ret.pages[i] /\ ret.pages[i] < ret.total_pages
         /\ \A j \in DOMAIN ret.pages : ret.pages[i] = ret.pages[j] => i = j
    /\ (req.form.spec = <<>> => ret.pages = Range(ret.total_pages))
    /\ (OpenEnded(req.form.spec) =>
          ret.pages = FromPage(DecimalValue(SubSeq(req.form.spec, 1, Len(req.form.spec) - 1)),
                               ret.total_pages))


\* whether one part of a specification names page p: the number p, or a
\* range that holds p
PartNames(part, p, total) ==
  LET dash == IndexOf(part, "-")
      first == SubSeq(part, 1, dash - 1)
      last == SubSeq(part, dash + 1, Len(part))
  IN IF dash = 0 THEN ParseInt(PyStr(part)).ok /\ ParseInt(PyStr(part)).n = p
     ELSE /\ (first # <<>> => ParseInt(PyStr(first)).ok /\ ParseInt(PyStr(first)).n <= p)
          /\ (last # <<>> => ParseInt(PyStr(last)).ok /\ p <= ParseInt(PyStr(last)).n)

\* the pages of a document of total pages that a specification names
PagesNamed(spec, total) ==
  {p \in 1..total :
     \E i \in DOMAIN Split(spec, ",") :
       /\ Strip(Split(spec, ",")[i]) # <<>>
       /\ PartNames(Strip(Split(spec, ",")[i]), p, total)}

\* the pages the delete fields of the form name
DeletedByForm(form, total) ==
  UNION {PagesNamed(form[key], total) :
           key \in {"deleted_pages", "delete_pages"} \cap DOMAIN form}

\* C29: the output of organize-pdf holds pages of the input only, and none
\* of the pages a delete specification of the form names, whether the form
\* calls it deleted_pages or delete_pages
C29_DeletedPagesGone ==
  (Organized /\ ~ret.raised) =>
    \A i \in DOMAIN OutputPages :
      \E p \in DOMAIN req.files[1].body.pages :
        /\ OutputPages[i].id = req.files[1].body.pages[p].id
        /\ p \notin DeletedByForm(req.form, Len(req.files[1].body.pages))

\* a request to crop-pdf with a region for page 1 has been answered
CropRequested == Web /\ req.slug = SLUG.crop_pdf /\ "crop_regions" \in DOMAIN req.form

\* the region the request carries for page 1, as the numbers it was written
\* with
RegionSent == DictGet(JsonLoads(req.form.crop_regions).v, <<"1">>)
SentNumber(name) == DictGet(RegionSent, RegionKeys[name]).n

\* the region leaves the page or is empty
LeavesPageOrEmpty ==
  \/ SentNumber("x") < 0 \/ SentNumber("y") < 0
  \/ SentNumber("width") <= 0 \/ SentNumber("height") <= 0
  \/ SentNumber("x") + SentNumber("width") > 100
  \/ SentNumber("y") + SentNumber("height") > 100

\* the crop box lies inside the page and is not empty
CropInsidePage(page) ==
  /\ 0 <= page.crop.x0 /\ page.crop.x0 < page.crop.x1 /\ page.crop.x1 <= 100 * page.width
  /\ 0 <= page.crop.y0 /\ page.crop.y0 < page.crop.y1 /\ page.crop.y1 <= 100 * page.height

\* C30: for every region, crop_pdf_regions returns a document whose crop
\* boxes lie inside their pages with positive width and height, and a region
\* that leaves the page or is empty leaves the crop box of its page as it
\* was
C30_CropInsidePage ==
  CropRequested =>
    /\ Ran("crop_pdf_regions") /\ ~ret.raised
    /\ \A i \in DOMAIN OutputPages : CropInsidePage(OutputPages[i])
    /\ (LeavesPageOrEmpty => OutputPages[1].crop = req.files[1].body.pages[1].crop)
====
